---- MODULE Spec2Model ----
(***************************************************************************)
(* TalosMapEditor: the identifier allocator (components/id_manager.py),    *)
(* the backend entity store (components/class_holder.py), the proxy store  *)
(* (components/qclass_holder.py), the editor operations that drive them    *)
(* (ui/map_editor.py, ui/agv_editor.py, ui/file_management.py) and the 3D  *)
(* view with its camera (ui/realtime_view.py).                             *)
(*                                                                         *)
(* The specifications share the definitions below:                         *)
(*   IdSpec    one IDManager driven through get_new_id / reset;            *)
(*   StoreSpec one ClassHolder driven through its add_* / delete_* methods *)
(*             with the arguments the repository's callers build;          *)
(*   ProxySpec AGVs, their QAGV proxies and assignments to the AGVs;       *)
(*   Spec      the editor: the user actions of MapEditor, AGVEditor and    *)
(*             MapLoader acting on ClassHolder, QClassHolder and the       *)
(*             scene, each a whole handler, and the renders of the 3D view;*)
(*   LoopSpec  the event loop: handlers split at their modal dialogs and   *)
(*             between their two store writes, tab switches and renders;   *)
(*   ZoomSpec  wheel events on the GLWidget, and renders;                  *)
(*   CamSpec   every input event of the GLWidget, and renders;             *)
(*   PointerSpec the GLWidget's pointer events with several buttons held;  *)
(*   FileSpec  the editor with MapExporter.save_map and a load of the file;*)
(*   ClickSpec mouse presses on the 2D canvas, mode and tool buttons;      *)
(*   ViewSpec  the 3D view's per-entity functions on stored stations;      *)
(*   TypeSpec  one StationTypeManager driven through add_type/remove_type. *)
(*                                                                         *)
(* Python values: a dict is a function whose DOMAIN is its key set; an     *)
(* object is a record carrying `uid`, its identity (two objects built by   *)
(* two constructor calls differ in uid even when every field agrees); a    *)
(* method is an operator from the receiver (and arguments) to the record   *)
(* [self |-> receiver afterwards, ret |-> returned value, exc |-> the      *)
(* exception raised, "" for none]. No handler of the editor changes a      *)
(* field of an entity after it is stored, so holding the record by value   *)
(* in several dicts is the same as holding references; where ProxySpec     *)
(* assigns to a stored AGV, it does so in every place that refers to it.   *)
(***************************************************************************)
EXTENDS Integers, Sequences, FiniteSets, TLC

VARIABLES
    idm,            \* IdSpec: the IDManager under test
    idlog,          \* IdSpec: the calls made on idm so far, with their returns
    ch,             \* the ClassHolder
    qch,            \* the QClassHolder (proxy dicts)
    objs,           \* objects constructed so far per entity class (source of uid)
    issued,         \* per entity class, the <<id, uid>> pairs given out this session
    ret,            \* StoreSpec: value returned by the last ClassHolder call
    lastOp,         \* the call made by the last step (StoreSpec, ZoomSpec,
                    \* TypeSpec, ClickSpec); in LoopSpec, the locals of the
                    \* handler that is running; in FileSpec, the map file; in
                    \* PointerSpec, the pointer's buttons
    raised,         \* exception the code of the last step raised ("" when none)
    station_manager,\* MapEditor.station_manager, the StationTypeManager
    scene,          \* the entity proxies in MapEditor.scene (grid items left out)
    map_size,       \* MapEditor.map_size
    map_size_spin,  \* value of MapEditor.map_size_spin
    gl_map_size,    \* GLWidget.map_size
    current_mode,   \* MapEditor.current_mode
    path_tool,      \* MapEditor.path_tool
    camera_rotation,   \* GLWidget.camera_rotation[0], [1]: tilt, orbit (half-degrees)
    camera_distance,   \* GLWidget.camera_distance (thousandths)
    camera_position,   \* GLWidget.camera_position (thousandths)
    projection_matrix, \* GLWidget.projection_matrix
    view_matrix,       \* GLWidget.view_matrix
    last_pos,          \* GLWidget.last_pos (PyNone or a pixel position)
    pan_start_pos,     \* GLWidget.pan_start_pos (PyNone: unset)
    gl_size,           \* <<GLWidget.width(), GLWidget.height()>>
    drawn,             \* what the last paintGL drew: the node proxies' poses
    pending,           \* input events the GLWidget handled since its last paintGL
    pc                 \* LoopSpec: the tab shown ("idle": Map Editor, "realtime")
                       \* or the statement the running handler has reached

\* the IDManager of IdSpec
idv == <<idm, idlog>>
\* the editor's own state
ui == <<station_manager, scene, map_size, map_size_spin, gl_map_size,
        current_mode, path_tool>>

\* the camera of the 3D view and its input state
cam == <<camera_rotation, camera_distance, camera_position, projection_matrix,
         last_pos, pan_start_pos, gl_size>>
\* what a render pass writes
frame == <<view_matrix, drawn, pending>>

vars == <<idm, idlog, ch, qch, objs, issued, ret, lastOp, raised, station_manager,
          scene, map_size, map_size_spin, gl_map_size, current_mode, path_tool,
          camera_rotation, camera_distance, camera_position, projection_matrix,
          view_matrix, last_pos, pan_start_pos, gl_size, drawn, pending, pc>>

---------------------------------------------------------------------------
(* Bounds of the model *)

\* entities the editor creates in one session (Spec)
MaxObjs == 2
\* entities passed to the ClassHolder of StoreSpec
MaxStoreObjs == 3
\* calls made on the IDManager of IdSpec
MaxCalls == 7
\* CamSpec: largest change of camera_distance from its initial value, in
\* thousandths
MaxZoomDrift == 2000
\* CamSpec: input events handled between two renders
MaxPending == 1
\* CamSpec: largest change of the orbit angle from its initial value, in
\* half-degrees
MaxOrbit == 90
\* CamSpec: a pan gesture starts with the camera offset at most this far from
\* its initial value, per axis, in thousandths
MaxPan == 100

---------------------------------------------------------------------------
(* Python values *)

\* `id=None`: the id of an entity no store has numbered yet. Ids issued by an
\* IDManager start at 1, so 0 is free to stand for None.
NoId == 0

\* Returned values, tagged with their Python type.
PyNone == [kind |-> "None"]
PyBool(b) == [kind |-> "bool", val |-> b]
PyInt(n) == [kind |-> "int", val |-> n]
PyObj(o) == [kind |-> "object", val |-> o]

\* d[k] = v
Put(d, k, v) == [x \in (DOMAIN d) \cup {k} |-> IF x = k THEN v ELSE d[x]]
\* d.pop(k, None), the dict afterwards
Pop(d, k) == [x \in (DOMAIN d) \ {k} |-> d[x]]
\* d.get(k)
Get(d, k) == IF k \in DOMAIN d THEN PyObj(d[k]) ELSE PyNone
\* {}
EmptyDict == [x \in {} |-> PyNone]
\* list(d.values()) as a set
Values(d) == {d[k] : k \in DOMAIN d}
\* `if name:` is false for None and for the empty string
Truthy(name) == name # ""

---------------------------------------------------------------------------
(* components/id_manager.py *)

IDManager == [id_counter |-> 0]

get_new_id_returns_old(self) ==
    [self |-> [id_counter |-> self.id_counter + 1], ret |-> self.id_counter]
get_new_id(self) ==
    [self |-> [id_counter |-> self.id_counter + 1], ret |-> self.id_counter + 1]

reset(self) == [self |-> [id_counter |-> 0], ret |-> PyNone]

---------------------------------------------------------------------------
(* Entities: components/station.py, components/agv.py, components/path.py.  *)
(* Lengths are in decimetres (1.5 m is 15), angles in degrees.              *)

\* StationType(name, color, description="", port_x=1.5, port_y=0.0,
\* port_direction=0.0)
StationType(name, color, description, port_x, port_y, port_direction) ==
    [name |-> name, color |-> color, description |-> description,
     port_x |-> port_x, port_y |-> port_y, port_direction |-> port_direction]

\* StationType(name, color, description): the port fields take their defaults
DefaultPortType(name, color, description) ==
    StationType(name, color, description, 15, 0, 0)

\* an add_type that lets a second type of the same name replace the first
add_type_overwrites(self, station_type) ==
    [self |-> [self EXCEPT !.types = Put(@, station_type.name, station_type)],
     ret |-> PyBool(station_type.name \notin DOMAIN self.types)]

\* StationTypeManager.add_type
add_type(self, station_type) ==
    IF station_type.name \in DOMAIN self.types
    THEN [self |-> self, ret |-> PyBool(FALSE)]
    ELSE [self |-> [self EXCEPT !.types = Put(@, station_type.name, station_type)],
          ret |-> PyBool(TRUE)]

\* StationTypeManager.get_type
get_type(self, name) == Get(self.types, name)

\* StationTypeManager.remove_type
remove_type(self, name) ==
    IF name \in DOMAIN self.types
    THEN [self |-> [self EXCEPT !.types = Pop(@, name)], ret |-> PyBool(TRUE)]
    ELSE [self |-> self, ret |-> PyBool(FALSE)]

\* StationTypeManager(): the four default types are added to an empty catalog
StationTypeManager ==
    LET t0 == [types |-> EmptyDict]
        t1 == add_type(t0, DefaultPortType("Loading", "#4CAF50",
                                           "Loading station for materials")).self
        t2 == add_type(t1, DefaultPortType("Unloading", "#f44336",
                                           "Unloading station for materials")).self
        t3 == add_type(t2, DefaultPortType("Charging", "#FFC107",
                                           "QAGV charging station")).self
    IN add_type(t3, DefaultPortType("Storage", "#2196F3", "Storage location")).self

\* Station(x, y, station_type, name, id=None); .direction is set by the caller
Station(uid, x, y, station_type, name, id) ==
    [kind |-> "Station", uid |-> uid, id |-> id, name |-> name,
     position |-> <<x, y>>, station_type |-> station_type,
     size |-> <<10, 10, 10>>, direction |-> 0, port |-> PyNone,
     mesh_path |-> PyNone]

\* AGV(name, position, size)
AGV(uid, name, position) ==
    [kind |-> "AGV", uid |-> uid, id |-> NoId, name |-> name,
     position |-> position, direction |-> 0, status |-> "unknown",
     port |-> PyNone]

\* PathNode(x, y, direction=0.0, id=None, name=None)
PathNode(uid, x, y, direction, id, name) ==
    [kind |-> "PathNode", uid |-> uid, id |-> id, name |-> name,
     position |-> <<x, y>>, direction |-> direction]

---------------------------------------------------------------------------
(* components/class_holder.py *)

ClassHolder ==
    [station_id_manager |-> IDManager, agv_id_manager |-> IDManager,
     path_id_manager |-> IDManager, path_node_id_manager |-> IDManager,
     stations |-> EmptyDict, agvs |-> EmptyDict, paths |-> EmptyDict,
     path_nodes |-> EmptyDict, stations_by_name |-> EmptyDict,
     agvs_by_name |-> EmptyDict, station_types |-> EmptyDict]

add_station_keeps_first_name(self, station) ==
    LET new == get_new_id(self.station_id_manager)
        st == IF station.id = NoId THEN [station EXCEPT !.id = new.ret] ELSE station
        m == IF station.id = NoId THEN new.self ELSE self.station_id_manager
    IN [self |-> [self EXCEPT !.station_id_manager = m,
                              !.stations = Put(@, st.id, st),
                              !.stations_by_name =
                                  IF Truthy(st.name) /\ st.name \notin DOMAIN @
                                  THEN Put(@, st.name, st) ELSE @],
        ret |-> PyObj(st), exc |-> ""]
add_station(self, station) ==
    LET new == get_new_id(self.station_id_manager)
        st == IF station.id = NoId THEN [station EXCEPT !.id = new.ret] ELSE station
        m == IF station.id = NoId THEN new.self ELSE self.station_id_manager
    IN [self |-> [self EXCEPT !.station_id_manager = m,
                              !.stations = Put(@, st.id, st),
                              !.stations_by_name =
                                  IF Truthy(st.name) THEN Put(@, st.name, st) ELSE @],
        ret |-> PyObj(st), exc |-> ""]

get_station_by_id(self, station_id) == Get(self.stations, station_id)

get_station_by_name(self, name) == Get(self.stations_by_name, name)

delete_station_keeps_name(self, station_id) ==
    [self |-> [self EXCEPT !.stations = Pop(@, station_id)],
     ret |-> PyNone, exc |-> ""]
delete_station_unguarded(self, station_id) ==
    LET station == Get(self.stations, station_id)
    IN IF station = PyNone
       THEN [self |-> self, ret |-> PyNone, exc |-> "AttributeError"]
       ELSE [self |-> [self EXCEPT !.stations = Pop(@, station_id),
                                   !.stations_by_name =
                                       IF station.val.name \in DOMAIN @
                                       THEN Pop(@, station.val.name) ELSE @],
             ret |-> PyNone, exc |-> ""]
delete_station(self, station_id) ==
    LET station == Get(self.stations, station_id)
    IN [self |-> [self EXCEPT !.stations = Pop(@, station_id),
                              !.stations_by_name =
                                  IF station # PyNone /\ station.val.name \in DOMAIN @
                                  THEN Pop(@, station.val.name) ELSE @],
        ret |-> PyNone, exc |-> ""]

add_agv(self, agv) ==
    LET new == get_new_id(self.agv_id_manager)
        a == IF agv.id = NoId THEN [agv EXCEPT !.id = new.ret] ELSE agv
        m == IF agv.id = NoId THEN new.self ELSE self.agv_id_manager
    IN [self |-> [self EXCEPT !.agv_id_manager = m,
                              !.agvs = Put(@, a.id, a),
                              !.agvs_by_name =
                                  IF Truthy(a.name) THEN Put(@, a.name, a) ELSE @],
        ret |-> PyObj(a), exc |-> ""]

get_agv_by_id(self, agv_id) == Get(self.agvs, agv_id)

get_agv_by_name(self, name) == Get(self.agvs_by_name, name)

delete_agv(self, agv_id) ==
    LET agv == Get(self.agvs, agv_id)
    IN [self |-> [self EXCEPT !.agvs = Pop(@, agv_id),
                              !.agvs_by_name =
                                  IF agv # PyNone /\ agv.val.name \in DOMAIN @
                                  THEN Pop(@, agv.val.name) ELSE @],
        ret |-> PyNone, exc |-> ""]

add_path_node(self, node) ==
    LET new == get_new_id(self.path_node_id_manager)
        n == IF node.id = NoId THEN [node EXCEPT !.id = new.ret] ELSE node
        m == IF node.id = NoId THEN new.self ELSE self.path_node_id_manager
    IN [self |-> [self EXCEPT !.path_node_id_manager = m,
                              !.path_nodes = Put(@, n.id, n)],
        ret |-> PyObj(n), exc |-> ""]

get_path_node_by_id(self, node_id) == Get(self.path_nodes, node_id)

delete_path_node(self, node_id) ==
    [self |-> [self EXCEPT !.path_nodes = Pop(@, node_id)],
     ret |-> PyNone, exc |-> ""]

---------------------------------------------------------------------------
(* Proxies: QStation (station.py), QAGV (agv.py), QPathNode (path.py).      *)
(* A constructor is an operator to [self |-> the proxy, exc |-> the          *)
(* exception it raises, "" when it returns].                                 *)

\* QStation(station), station.py:89-104. Line 97 reads self.station_type, an
\* attribute QStation never has (the backend object is kept as self.station and
\* neither QStation nor QGraphicsRectItem defines station_type), so for every
\* argument the constructor raises AttributeError there, before line 103 runs
\* _update_port: no QStation and no port node ever comes to exist.
QStation(station) == [self |-> PyNone, exc |-> "AttributeError"]

\* QAGV(agv), agv.py:36-66. Given a QAGV instead of an AGV (as update_map_size
\* does), _update_tooltip reads self.agv.status, which a QAGV lacks.
QAGV(agv) ==
    IF agv.kind = "AGV"
    THEN [self |-> [kind |-> "QAGV", agv |-> agv, id |-> agv.id,
                    position |-> agv.position, direction |-> agv.direction,
                    name |-> agv.name],
          exc |-> ""]
    ELSE [self |-> PyNone, exc |-> "AttributeError"]

\* QPathNode(node), path.py:39-69. Given a QPathNode instead of a PathNode (as
\* update_map_size does), line 42 reads self.node.position, which a QPathNode
\* lacks (it only overrides pos()).
\* rect is the ellipse's rectangle in item coordinates (x, y, width, height;
\* line 51, scene units: 10 per decimetre) and item_pos the item's position in
\* the scene, which the constructor leaves at the origin.
QPathNode(node) ==
    IF node.kind = "PathNode"
    THEN [self |-> [kind |-> "QPathNode", node |-> node,
                    rect |-> <<node.position[1] * 10 - 5,
                               -(node.position[2] * 10) - 5, 10, 10>>,
                    item_pos |-> <<0, 0>>],
          exc |-> ""]
    ELSE [self |-> PyNone, exc |-> "AttributeError"]

\* where the scene shows a QPathNode: the centre of its rectangle, moved by the
\* item's position
scene_centre(qnode) ==
    <<qnode.item_pos[1] + qnode.rect[1] + qnode.rect[3] \div 2,
      qnode.item_pos[2] + qnode.rect[2] + qnode.rect[4] \div 2>>

---------------------------------------------------------------------------
(* components/qclass_holder.py *)

QClassHolder ==
    [qstations |-> EmptyDict, qagvs |-> EmptyDict, qpaths |-> EmptyDict,
     qpath_nodes |-> EmptyDict]

add_qstation(self, station) ==
    LET q == QStation(station)
    IN IF q.exc # ""
       THEN [self |-> self, ret |-> PyNone, exc |-> q.exc]
       ELSE [self |-> [self EXCEPT !.qstations = Put(@, station.id, q.self)],
             ret |-> PyObj(q.self), exc |-> ""]

get_qstation_by_id(self, station_id) == Get(self.qstations, station_id)

add_qagv(self, agv) ==
    LET q == QAGV(agv)
    IN IF q.exc # ""
       THEN [self |-> self, ret |-> PyNone, exc |-> q.exc]
       ELSE [self |-> [self EXCEPT !.qagvs = Put(@, agv.id, q.self)],
             ret |-> PyObj(q.self), exc |-> ""]

add_qpath_node(self, node) ==
    LET q == QPathNode(node)
    IN IF q.exc # ""
       THEN [self |-> self, ret |-> PyNone, exc |-> q.exc]
       ELSE [self |-> [self EXCEPT !.qpath_nodes = Put(@, node.id, q.self)],
             ret |-> PyObj(q.self), exc |-> ""]

\* a delete_qpath_node that forgets the pop
delete_qpath_node_keeps(self, node_id) ==
    [self |-> self, ret |-> PyNone, exc |-> ""]

delete_qpath_node(self, node_id) ==
    [self |-> [self EXCEPT !.qpath_nodes = Pop(@, node_id)],
     ret |-> PyNone, exc |-> ""]

---------------------------------------------------------------------------
(* ui/realtime_view.py: GLWidget, the 3D view and its camera.                *)
(* Floats are fixed-point numbers, in thousandths; angles are in half-degrees *)
(* (rotation_speed is 0.5 degree per pixel). cos and sin are tabulated at the *)
(* angles the gestures below produce.                                         *)

\* one unit (1.0) in thousandths
Scale == 1000
\* camera_distance, min_zoom, max_zoom, zoom_speed as GLWidget.__init__ sets them
InitialDistance == 15000
MinZoom == 2000
MaxZoom == 50000
ZoomSpeed == 1100
\* the tilt clamp of mouseMoveEvent, 89 degrees, in half-degrees
TiltLimit == 178
\* near plane of resizeGL's perspective (0.1) and tan(45/2 degrees)
NearPlane == 100
TanHalfFovy == 414

Abs(n) == IF n < 0 THEN -n ELSE n
\* a * b for fixed-point a, b
Mul(a, b) == (a * b) \div Scale
\* a * b where both can exceed 1.0 by far: b is cut to hundredths first
MulBig(a, b) == (a * (b \div 10)) \div 100

\* np.cos of an angle of the first quadrant, in degrees
CosQ(d) ==
    CASE d = 0 -> 1000 [] d = 1 -> 1000 [] d = 45 -> 707 [] d = 89 -> 17
      [] d = 90 -> 0
\* np.cos(np.radians(.)) and np.sin(np.radians(.)) of an angle in half-degrees
np_cos(h) ==
    LET d == (h \div 2) % 360
    IN IF d <= 90 THEN CosQ(d)
       ELSE IF d <= 180 THEN -CosQ(180 - d)
       ELSE IF d <= 270 THEN -CosQ(d - 180)
       ELSE CosQ(360 - d)
np_sin(h) == np_cos(h - 180)

\* GLWidget._create_view_matrix: T(-position) . Rx(tilt) . Ry(orbit) . T(0, 0,
\* -distance). The matrix is held as the three values it is the product of.
_create_view_matrix(rotation, distance, position) ==
    [rotation |-> rotation, distance |-> distance, position |-> position]

\* np.identity(4) as view matrix: no rotation, no offset, distance 0
identity_view == _create_view_matrix(<<0, 0>>, 0, <<0, 0, 0>>)

\* np.identity(4) as projection matrix, which it is until resizeGL runs
identity_projection == [identity |-> TRUE]

\* GLWidget._perspective_matrix(45.0, aspect, 0.1, 100.0), aspect as width : height
_perspective_matrix(width, height) == [identity |-> FALSE, aspect |-> <<width, height>>]

\* GLWidget._screen_to_world(screen_x, screen_y) with the widget's matrices.
\* inv(projection . view) . (x, y, -1, 1), divided by its w, is the point of the
\* near plane under the pixel: in eye space (x * aspect * tan * near,
\* y * tan * near, -near), carried to the world by the inverse of the view
\* matrix. When its z is not 0 the code adds t * point with t = -z.
_screen_to_world(projection, view, size, screen) ==
    LET x == (2 * Scale * screen[1]) \div size[1] - Scale
        y == Scale - (2 * Scale * screen[2]) \div size[2]
        ex == Mul((Mul(x, TanHalfFovy) * projection.aspect[1])
                      \div projection.aspect[2], NearPlane)
        ey == Mul(Mul(y, TanHalfFovy), NearPlane)
        px == ex + view.position[1]
        py == ey + view.position[2]
        pz == view.position[3] - NearPlane
        ct == np_cos(view.rotation[1])
        st == np_sin(view.rotation[1])
        co == np_cos(view.rotation[2])
        so == np_sin(view.rotation[2])
        y1 == Mul(ct, py) + Mul(st, pz)
        z1 == Mul(ct, pz) - Mul(st, py)
        x2 == Mul(co, px) - Mul(so, z1)
        z2 == Mul(so, px) + Mul(co, z1)
        w == <<x2, y1, z2 + view.distance>>
        t == -w[3]
    IN IF w[3] # 0
       THEN <<w[1] + MulBig(w[1], t), w[2] + MulBig(w[2], t), w[3] + MulBig(w[3], t)>>
       ELSE w

\* camera_rotation as GLWidget.__init__ sets it: 45 degrees of tilt and of orbit
Init_camera_rotation == <<90, 90>>

\* camera_position as GLWidget.__init__ sets it: [-5, -5, 5]
Init_camera_position == <<-5000, -5000, 5000>>

\* the pixel at the centre of the widget
Centre(size) == <<size[1] \div 2, size[2] \div 2>>

\* camera_distance after k zoom-in notches (k < 0: zoom-out notches) from the
\* initial distance: 15 / 1.1^k. Float rounding aside, a notch in and a notch
\* out cancel, so the distances the camera takes are these values.
RECURSIVE DistanceAt(_)
DistanceAt(k) ==
    IF k = 0 THEN InitialDistance
    ELSE IF k > 0 THEN (DistanceAt(k - 1) * Scale) \div ZoomSpeed
         ELSE (DistanceAt(k + 1) * ZoomSpeed) \div Scale

\* the notches that lead to a distance of [min_zoom, max_zoom], and one more
ZoomLevels == -13 .. 22
ZoomLevel(distance) == CHOOSE k \in ZoomLevels : DistanceAt(k) = distance

\* a wheelEvent without the test of the zoom limits
wheelEvent_unguarded(c, zoom_in) ==
    [c EXCEPT !.camera_distance =
                  IF zoom_in THEN DistanceAt(ZoomLevel(@) + 1)
                  ELSE DistanceAt(ZoomLevel(@) - 1)]

\* GLWidget.wheelEvent: zoom_in is event.angleDelta().y() > 0. Both calls of
\* _screen_to_world read self.view_matrix, which only paintGL assigns.
wheelEvent(c, zoom_in) ==
    LET new_distance == IF zoom_in THEN DistanceAt(ZoomLevel(c.camera_distance) + 1)
                        ELSE DistanceAt(ZoomLevel(c.camera_distance) - 1)
        world_pos_before == _screen_to_world(c.projection_matrix, c.view_matrix,
                                             c.gl_size, Centre(c.gl_size))
        world_pos_after == _screen_to_world(c.projection_matrix, c.view_matrix,
                                            c.gl_size, Centre(c.gl_size))
    IN IF MinZoom <= new_distance /\ new_distance <= MaxZoom
       THEN [c EXCEPT !.camera_distance = new_distance,
                      !.camera_position =
                          [i \in 1..3 |-> @[i] + (world_pos_before[i] - world_pos_after[i])]]
       ELSE c

\* GLWidget.mousePressEvent (the second definition, line 647, is the one in force)
mousePressEvent(c, button, pos) ==
    [c EXCEPT !.last_pos = pos,
              !.pan_start_pos =
                  IF button = "middle"
                  THEN _screen_to_world(c.projection_matrix, c.view_matrix, c.gl_size, pos)
                  ELSE @]

\* a clamp that lets every tilt through
ClampTilt_off(tilt) == tilt

\* max(-89, min(89, tilt))
ClampTilt(tilt) ==
    IF tilt > TiltLimit THEN TiltLimit ELSE IF tilt < -TiltLimit THEN -TiltLimit ELSE tilt

\* a pan that carries the z component of the delta into camera_position too
pan_with_z(c, pos) ==
    LET pos_before == _screen_to_world(c.projection_matrix, c.view_matrix,
                                       c.gl_size, c.last_pos)
        pos_after == _screen_to_world(c.projection_matrix, c.view_matrix,
                                      c.gl_size, pos)
    IN [c EXCEPT !.camera_position = [i \in 1..3 |-> @[i] - (pos_after[i] - pos_before[i])]]

\* the middle-button branch of mouseMoveEvent
pan(c, pos) ==
    LET pos_before == _screen_to_world(c.projection_matrix, c.view_matrix,
                                       c.gl_size, c.last_pos)
        pos_after == _screen_to_world(c.projection_matrix, c.view_matrix,
                                      c.gl_size, pos)
        delta_x == pos_after[1] - pos_before[1]
        delta_y == pos_after[2] - pos_before[2]
    IN [c EXCEPT !.camera_position = <<@[1] - delta_x, @[2] - delta_y, @[3]>>]

\* GLWidget.mouseMoveEvent: buttons is event.buttons(), pos is event.pos()
mouseMoveEvent(c, buttons, pos) ==
    IF c.last_pos = PyNone THEN c
    ELSE
    LET dx == pos[1] - c.last_pos[1]
        dy == pos[2] - c.last_pos[2]
        center_before == _screen_to_world(c.projection_matrix, c.view_matrix,
                                          c.gl_size, Centre(c.gl_size))
        center_after == _screen_to_world(c.projection_matrix, c.view_matrix,
                                         c.gl_size, Centre(c.gl_size))
    IN IF buttons = "left"
       THEN [c EXCEPT !.camera_rotation =
                          <<ClampTilt(@[1] + dy), @[2] + dx>>,
                      !.camera_position =
                          [i \in 1..3 |-> @[i] + (center_before[i] - center_after[i])],
                      !.last_pos = pos]
       ELSE IF buttons = "middle"
            THEN [pan(c, pos) EXCEPT !.last_pos = pos]
            ELSE [c EXCEPT !.last_pos = pos]

\* a mouseReleaseEvent that forgets to reset last_pos
mouseReleaseEvent_keeps_last_pos(c, button) ==
    [c EXCEPT !.pan_start_pos = IF button = "middle" THEN PyNone ELSE @]

\* GLWidget.mouseReleaseEvent
mouseReleaseEvent(c, button) ==
    [c EXCEPT !.last_pos = PyNone,
              !.pan_start_pos = IF button = "middle" THEN PyNone ELSE @]

\* a paintGL that empties the proxy maps it draws from
paintGL_clears(q, c) ==
    [qch |-> [q EXCEPT !.qstations = EmptyDict, !.qagvs = EmptyDict,
                       !.qpath_nodes = EmptyDict],
     view_matrix |-> _create_view_matrix(c.camera_rotation, c.camera_distance,
                                         c.camera_position),
     drawn |-> {}, exc |-> ""]

\* GLWidget.paintGL: the view matrix is rebuilt from the camera, then the grid,
\* the station proxies, the node proxies and the AGV proxies are drawn. The
\* stores are read only. _draw_station reads station.size.width of a list and
\* _draw_agv reads the size of a QAGV, which has none: either raises.
paintGL(q, c) ==
    [qch |-> q,
     view_matrix |-> _create_view_matrix(c.camera_rotation, c.camera_distance,
                                         c.camera_position),
     drawn |-> IF q.qstations # EmptyDict THEN {}
               ELSE {<<n.node.position, n.node.direction>> : n \in Values(q.qpath_nodes)},
     exc |-> IF q.qstations # EmptyDict \/ q.qagvs # EmptyDict
             THEN "AttributeError" ELSE ""]

\* the fields of the GLWidget as one record, and back
Camera ==
    [camera_rotation |-> camera_rotation, camera_distance |-> camera_distance,
     camera_position |-> camera_position, projection_matrix |-> projection_matrix,
     view_matrix |-> view_matrix, last_pos |-> last_pos,
     pan_start_pos |-> pan_start_pos, gl_size |-> gl_size]

SetCamera(c) ==
    /\ camera_rotation' = c.camera_rotation
    /\ camera_distance' = c.camera_distance
    /\ camera_position' = c.camera_position
    /\ projection_matrix' = c.projection_matrix
    /\ view_matrix' = c.view_matrix
    /\ last_pos' = c.last_pos
    /\ pan_start_pos' = c.pan_start_pos
    /\ gl_size' = c.gl_size

---------------------------------------------------------------------------
(* Initial state: the objects as their constructors leave them *)

Init ==
    /\ idm = IDManager
    /\ idlog = <<>>
    /\ ch = ClassHolder
    /\ qch = QClassHolder
    /\ objs = [station |-> 0, agv |-> 0, node |-> 0]
    /\ issued = [station |-> {}, agv |-> {}, node |-> {}]
    /\ ret = PyNone
    /\ lastOp = [op |-> "init"]
    /\ raised = ""
    /\ station_manager = StationTypeManager
    /\ scene = {}
    /\ map_size = 10
    /\ map_size_spin = 10
    /\ gl_map_size = 10
    /\ current_mode = "station"
    /\ path_tool = "add"
    /\ camera_rotation = Init_camera_rotation
    /\ camera_distance = InitialDistance
    /\ camera_position = Init_camera_position
    /\ projection_matrix = identity_projection
    /\ view_matrix = identity_view
    /\ last_pos = PyNone
    /\ pan_start_pos = PyNone
    /\ gl_size = <<800, 600>>
    /\ drawn = {}
    /\ pending = 0
    /\ pc = "idle"

---------------------------------------------------------------------------
(* IdSpec: an IDManager and the calls made on it *)

IdGetNewId ==
    /\ Len(idlog) < MaxCalls
    /\ LET r == get_new_id(idm)
       IN /\ idm' = r.self
          /\ idlog' = Append(idlog, [op |-> "get_new_id", ret |-> r.ret])
    /\ UNCHANGED <<cam, frame, pc, ch, qch, objs, issued, ret, lastOp, raised, ui>>

IdReset ==
    /\ Len(idlog) < MaxCalls
    /\ idm' = reset(idm).self
    /\ idlog' = Append(idlog, [op |-> "reset", ret |-> 0])
    /\ UNCHANGED <<cam, frame, pc, ch, qch, objs, issued, ret, lastOp, raised, ui>>

IdNext == IdGetNewId \/ IdReset

IdSpec == Init /\ [][IdNext]_vars

\* position in idlog of the last reset before call i (0: none)
LastReset(i) ==
    LET rs == {j \in 1..(i - 1) : idlog[j].op = "reset"}
    IN IF rs = {} THEN 0 ELSE CHOOSE j \in rs : \A k \in rs : k <= j

\* C1: in any sequence of get_new_id and reset calls on a fresh IDManager, the
\* k-th get_new_id since construction or since the last reset returns k: N calls
\* return 1, 2, ..., N, and the first call after a reset returns 1.
IdsConsecutiveFromOne ==
    \A i \in 1..Len(idlog) :
        idlog[i].op = "get_new_id" => idlog[i].ret = i - LastReset(i)

\* C1 witness: three calls returned 1, 2, 3, a reset followed, and the next call
\* returned 1.
IdsConsecutiveWitness ==
    /\ Len(idlog) >= 5
    /\ idlog[1].ret = 1 /\ idlog[2].ret = 2 /\ idlog[3].ret = 3
    /\ idlog[4].op = "reset"
    /\ idlog[5].op = "get_new_id" /\ idlog[5].ret = 1

---------------------------------------------------------------------------
(* StoreSpec: a ClassHolder and the calls made on it. The arguments are the  *)
(* ones the repository's callers build: Station(...) and AGV(...) without an *)
(* id (map_editor.py:600, agv_editor.py:125), PathNode(...) without an id    *)
(* (map_editor.py:920) or with one just taken from path_node_id_manager      *)
(* (map_editor.py:526).                                                      *)

\* names given to stations and AGVs; "" is the empty line edit
Names == {"", "a", "b"}

Ids == 1..MaxStoreObjs

Created == objs.station + objs.agv + objs.node

\* the <<id, uid>> pairs of the entities a ClassHolder stores, per class
Stored(c) ==
    [station |-> {<<c.stations[k].id, c.stations[k].uid>> : k \in DOMAIN c.stations},
     agv |-> {<<c.agvs[k].id, c.agvs[k].uid>> : k \in DOMAIN c.agvs},
     node |-> {<<c.path_nodes[k].id, c.path_nodes[k].uid>> : k \in DOMAIN c.path_nodes}]

Issue(c) == [k \in {"station", "agv", "node"} |-> issued[k] \cup Stored(c)[k]]

StoreAddStation ==
    \E name \in Names :
        /\ Created < MaxStoreObjs
        /\ LET r == add_station(ch, Station(objs.station + 1, 0, 0,
                                          get_type(StationTypeManager, "Loading").val, name, NoId))
           IN /\ ch' = r.self
              /\ ret' = r.ret
              /\ raised' = r.exc
              /\ issued' = Issue(r.self)
        /\ objs' = [objs EXCEPT !.station = @ + 1]
        /\ lastOp' = [op |-> "add_station", name |-> name]
        /\ UNCHANGED <<cam, frame, pc, idv, qch, ui>>

StoreDeleteStation ==
    \E station_id \in Ids :
        /\ LET r == delete_station(ch, station_id)
           IN ch' = r.self /\ ret' = r.ret /\ raised' = r.exc
        /\ lastOp' = [op |-> "delete_station", id |-> station_id,
                      present |-> station_id \in DOMAIN ch.stations]
        /\ UNCHANGED <<cam, frame, pc, idv, qch, objs, issued, ui>>

StoreAddAgv ==
    \E name \in Names :
        /\ Created < MaxStoreObjs
        /\ LET r == add_agv(ch, AGV(objs.agv + 1, name, <<0, 0>>))
           IN /\ ch' = r.self
              /\ ret' = r.ret
              /\ raised' = r.exc
              /\ issued' = Issue(r.self)
        /\ objs' = [objs EXCEPT !.agv = @ + 1]
        /\ lastOp' = [op |-> "add_agv", name |-> name]
        /\ UNCHANGED <<cam, frame, pc, idv, qch, ui>>

StoreDeleteAgv ==
    \E agv_id \in Ids :
        /\ LET r == delete_agv(ch, agv_id)
           IN ch' = r.self /\ ret' = r.ret /\ raised' = r.exc
        /\ lastOp' = [op |-> "delete_agv", id |-> agv_id,
                      present |-> agv_id \in DOMAIN ch.agvs]
        /\ UNCHANGED <<cam, frame, pc, idv, qch, objs, issued, ui>>

\* PathNode(x, y, direction=..., name=...) then add_path_node (map_editor.py:920-923)
StoreAddPathNode ==
    /\ Created < MaxStoreObjs
    /\ LET r == add_path_node(ch, PathNode(objs.node + 1, 0, 0, 0, NoId, ""))
       IN /\ ch' = r.self
          /\ ret' = r.ret
          /\ raised' = r.exc
          /\ issued' = Issue(r.self)
    /\ objs' = [objs EXCEPT !.node = @ + 1]
    /\ lastOp' = [op |-> "add_path_node", name |-> "", explicit |-> FALSE]
    /\ UNCHANGED <<cam, frame, pc, idv, qch, ui>>

\* PathNode(..., id=path_node_id_manager.get_new_id()) then add_path_node
\* (map_editor.py:526-527)
StoreAddPathNodeWithId ==
    /\ Created < MaxStoreObjs
    /\ LET new == get_new_id(ch.path_node_id_manager)
           r == add_path_node([ch EXCEPT !.path_node_id_manager = new.self],
                              PathNode(objs.node + 1, 0, 0, 0, new.ret, ""))
       IN /\ ch' = r.self
          /\ ret' = r.ret
          /\ raised' = r.exc
          /\ issued' = Issue(r.self)
    /\ objs' = [objs EXCEPT !.node = @ + 1]
    /\ lastOp' = [op |-> "add_path_node", name |-> "", explicit |-> TRUE]
    /\ UNCHANGED <<cam, frame, pc, idv, qch, ui>>

StoreDeletePathNode ==
    \E node_id \in Ids :
        /\ LET r == delete_path_node(ch, node_id)
           IN ch' = r.self /\ ret' = r.ret /\ raised' = r.exc
        /\ lastOp' = [op |-> "delete_path_node", id |-> node_id,
                      present |-> node_id \in DOMAIN ch.path_nodes]
        /\ UNCHANGED <<cam, frame, pc, idv, qch, objs, issued, ui>>

StoreNext ==
    \/ StoreAddStation
    \/ StoreDeleteStation
    \/ StoreAddAgv
    \/ StoreDeleteAgv
    \/ StoreAddPathNode
    \/ StoreAddPathNodeWithId
    \/ StoreDeletePathNode

StoreSpec == Init /\ [][StoreNext]_vars

---------------------------------------------------------------------------
(* Claims about ClassHolder, checked under StoreSpec *)

\* C3: after any sequence of add_station/delete_station (add_agv/delete_agv)
\* calls the name index agrees with the id map: every entry of the name index is
\* an entity stored in the id map under its own id, and every entity of the id
\* map with a non-empty name is found by get_by_name of that name.
NameIndexAgreesWithIdMap ==
    /\ \A n \in DOMAIN ch.stations_by_name :
           get_station_by_id(ch, ch.stations_by_name[n].id) = PyObj(ch.stations_by_name[n])
    /\ \A k \in DOMAIN ch.stations :
           Truthy(ch.stations[k].name) =>
               get_station_by_name(ch, ch.stations[k].name) # PyNone
    /\ \A n \in DOMAIN ch.agvs_by_name :
           get_agv_by_id(ch, ch.agvs_by_name[n].id) = PyObj(ch.agvs_by_name[n])
    /\ \A k \in DOMAIN ch.agvs :
           Truthy(ch.agvs[k].name) => get_agv_by_name(ch, ch.agvs[k].name) # PyNone

\* C4: for every entity class, a delete of the id under which an added entity e
\* is stored leaves get_by_id of that id absent and e in neither the id map nor
\* the name index.
DeleteAfterAddRemoves ==
    [][/\ (lastOp'.op = "delete_station" /\ lastOp'.present) =>
              LET e == ch.stations[lastOp'.id]
              IN /\ get_station_by_id(ch', lastOp'.id) = PyNone
                 /\ e \notin Values(ch'.stations)
                 /\ e \notin Values(ch'.stations_by_name)
       /\ (lastOp'.op = "delete_agv" /\ lastOp'.present) =>
              LET e == ch.agvs[lastOp'.id]
              IN /\ get_agv_by_id(ch', lastOp'.id) = PyNone
                 /\ e \notin Values(ch'.agvs)
                 /\ e \notin Values(ch'.agvs_by_name)
       /\ (lastOp'.op = "delete_path_node" /\ lastOp'.present) =>
              LET e == ch.path_nodes[lastOp'.id]
              IN /\ get_path_node_by_id(ch', lastOp'.id) = PyNone
                 /\ e \notin Values(ch'.path_nodes)]_vars

\* C4 witness: a named station was added under id 1 and delete_station(1) has
\* just removed it, while another station is still stored.
DeleteAfterAddWitness ==
    /\ lastOp.op = "delete_station" /\ lastOp.present /\ lastOp.id = 1
    /\ \E p \in issued.station : p[1] = 1
    /\ 1 \notin DOMAIN ch.stations
    /\ ch.stations # EmptyDict

DuplicateNameOverwritesIndex ==
    [][/\ (lastOp'.op = "add_station" /\ Truthy(lastOp'.name)
             /\ \E k \in DOMAIN ch.stations : ch.stations[k].name = lastOp'.name) =>
              /\ raised' = ""
              /\ ret'.val \notin Values(ch.stations)
              /\ \A k \in DOMAIN ch.stations :
                     get_station_by_id(ch', k) = PyObj(ch.stations[k])
              /\ get_station_by_id(ch', ret'.val.id) = ret'
              /\ get_station_by_name(ch', lastOp'.name) = ret'
       /\ (lastOp'.op = "add_agv" /\ Truthy(lastOp'.name)
             /\ \E k \in DOMAIN ch.agvs : ch.agvs[k].name = lastOp'.name) =>
              /\ raised' = ""
              /\ ret'.val \notin Values(ch.agvs)
              /\ \A k \in DOMAIN ch.agvs : get_agv_by_id(ch', k) = PyObj(ch.agvs[k])
              /\ get_agv_by_id(ch', ret'.val.id) = ret'
              /\ get_agv_by_name(ch', lastOp'.name) = ret']_vars

\* C6 witness: two stations named "a" are stored under ids 1 and 2, the second
\* was just added, and get_station_by_name("a") returns the second.
DuplicateNameWitness ==
    /\ lastOp.op = "add_station" /\ lastOp.name = "a"
    /\ {1, 2} \subseteq DOMAIN ch.stations
    /\ ch.stations[1].name = "a" /\ ch.stations[2].name = "a"
    /\ ret = PyObj(ch.stations[2])
    /\ get_station_by_name(ch, "a") = PyObj(ch.stations[2])

---------------------------------------------------------------------------
(* ProxySpec: AGVs and their proxies, through the calls add_agv_at_node makes *)
(* on the two stores (agv_editor.py:125-137) and the assignment to an AGV's   *)
(* direction (agv_editor.py:131, file_management.py:195). An AGV is one       *)
(* object: the stores and the proxy's agv field refer to it, so an assignment *)
(* to it shows through each of them; the proxy's own fields are what          *)
(* QAGV.__init__ put there.                                                   *)

\* directions and positions given to AGVs
AgvDirections == {0, 90}
AgvPositions == {<<0, 0>>, <<20, 30>>}

\* agv.direction = direction, for the AGV object with this uid
set_agv_direction(agv, uid, direction) ==
    IF agv.uid = uid THEN [agv EXCEPT !.direction = direction] ELSE agv

\* AGV(name, pos, size), agv.direction = ..., class_holder.add_agv(agv),
\* qclass_holder.add_qagv(agv)
ProxyAddAgv ==
    \E name \in Names, position \in AgvPositions, direction \in AgvDirections :
        /\ objs.agv < MaxObjs
        /\ LET agv == set_agv_direction(AGV(objs.agv + 1, name, position),
                                        objs.agv + 1, direction)
               r == add_agv(ch, agv)
               q == add_qagv(qch, r.ret.val)
           IN /\ ch' = r.self
              /\ qch' = q.self
              /\ raised' = q.exc
              /\ issued' = Issue(r.self)
        /\ objs' = [objs EXCEPT !.agv = @ + 1]
        /\ UNCHANGED <<cam, frame, pc, idv, ret, lastOp, ui>>

\* agv.direction = direction on a stored AGV
ProxySetAgvDirection ==
    \E k \in DOMAIN ch.agvs, direction \in AgvDirections :
        LET uid == ch.agvs[k].uid
        IN /\ ch' = [ch EXCEPT
                       !.agvs = [i \in DOMAIN @ |-> set_agv_direction(@[i], uid, direction)],
                       !.agvs_by_name =
                           [n \in DOMAIN @ |-> set_agv_direction(@[n], uid, direction)]]
           /\ qch' = [qch EXCEPT
                        !.qagvs = [i \in DOMAIN @ |->
                                      [@[i] EXCEPT !.agv = set_agv_direction(@, uid, direction)]]]
           /\ raised' = ""
           /\ UNCHANGED <<cam, frame, pc, idv, objs, issued, ret, lastOp, ui>>

ProxyNext == ProxyAddAgv \/ ProxySetAgvDirection

ProxySpec == Init /\ [][ProxyNext]_vars

\* C12: a proxy holds no copy of its own of the entity's state: the position
\* and the direction a QAGV exposes (the ones paintGL reads) are those of the
\* backend AGV it stands for, whatever was assigned to the AGV since.
ProxyShowsBackendState ==
    \A k \in DOMAIN qch.qagvs :
        /\ qch.qagvs[k].position = qch.qagvs[k].agv.position
        /\ qch.qagvs[k].direction = qch.qagvs[k].agv.direction

---------------------------------------------------------------------------
(* Spec: the editor. One action per user action of MapEditor (map_editor.py), *)
(* AGVEditor (agv_editor.py) and MapLoader (file_management.py). A handler    *)
(* that raises keeps what it had done before the raise; PySide reports the    *)
(* exception and the event loop goes on.                                      *)

\* range of map_size_spin
SpinMin == 5
SpinMax == 100

\* values the user sets the map-size spin box to
SpinSizes == {5, 10}
\* positions entered, in decimetres: (2 m, 3 m)
Points == {<<20, 30>>}
\* the same position as the scene coordinates of a click (100 units = 1 m, y down)
ScenePoints == {<<200, -300>>}
\* headings entered, in degrees
Directions == {90}
\* names typed for a station ("" is an empty input)
StationNames == {"", "a"}
\* names typed for a path node
NodeNames == {"n"}
\* names typed for a new station type
TypeNames == {"Dock"}
\* types the user selects in the type list, when the catalog has them
SelectableTypes == {"Loading", "Dock"}
\* port offsets and directions typed for a new station type
Ports == {<<0, 10, 90>>}

\* QSpinBox.setValue bounds the value to the range
Clamp(v) == IF v < SpinMin THEN SpinMin ELSE IF v > SpinMax THEN SpinMax ELSE v

\* MapEditor.set_mode
SetMode ==
    \E mode \in {"station", "path", "agv"} :
        /\ current_mode' = mode
        /\ raised' = ""
        /\ UNCHANGED <<cam, frame, pc, idv, ch, qch, objs, issued, ret, lastOp, station_manager, scene,
                       map_size, map_size_spin, gl_map_size, path_tool>>

\* MapEditor.set_path_tool: button 0 is "Add Node", button 1 is "Delete Node"
SetPathTool ==
    \E tool_id \in {0, 1} :
        /\ path_tool' = IF tool_id = 0 THEN "add" ELSE "delete"
        /\ raised' = ""
        /\ UNCHANGED <<cam, frame, pc, idv, ch, qch, objs, issued, ret, lastOp, station_manager, scene,
                       map_size, map_size_spin, gl_map_size, current_mode>>

\* MapEditor.handle_mouse_press, path mode, left button, tool "add", dialog
\* accepted: the node is built with an id taken from path_node_id_manager
ClickAddNode(pos, direction) ==
    LET new == get_new_id(ch.path_node_id_manager)
        node == PathNode(objs.node + 1, pos[1] \div 10, -(pos[2] \div 10),
                         direction, new.ret, "")
        r1 == add_path_node([ch EXCEPT !.path_node_id_manager = new.self], node)
        r2 == add_qpath_node(qch, r1.ret.val)
    IN /\ ch' = r1.self
       /\ qch' = r2.self
       /\ scene' = IF r2.exc = "" THEN scene \cup {r2.ret.val} ELSE scene
       /\ raised' = r2.exc
       /\ objs' = [objs EXCEPT !.node = @ + 1]
       /\ issued' = Issue(r1.self)

\* the same, tool "delete", with a QPathNode under the cursor
ClickDeleteNode(item) ==
    /\ qch' = delete_qpath_node(qch, item.node.id).self
    /\ ch' = delete_path_node(ch, item.node.id).self
    /\ scene' = scene \ {item}
    /\ raised' = ""
    /\ UNCHANGED <<cam, frame, pc, objs, issued>>

\* a handle_mouse_press that skips the test of current_mode
handle_mouse_press_any_mode(button, pos, direction, accepted, item) ==
    IF button # "middle" /\ button = "left"
       /\ path_tool = "add" /\ accepted /\ Created < MaxObjs
    THEN ClickAddNode(pos, direction)
    ELSE IF button # "middle" /\ button = "left"
            /\ path_tool = "delete" /\ item.kind = "QPathNode"
         THEN ClickDeleteNode(item)
         ELSE /\ raised' = ""
              /\ UNCHANGED <<cam, frame, pc, ch, qch, scene, objs, issued>>

\* MapEditor.handle_mouse_press(event). item is what scene.itemAt finds under
\* the cursor: a proxy of the scene, or PyNone for nothing or a grid item;
\* accepted is the answer to the direction dialog. A middle-button press and a
\* press in "station" or "agv" mode go to original_mouse_press (the view's own
\* mousePressEvent, lines 159-168), which pans or selects and touches no store.
handle_mouse_press(button, pos, direction, accepted, item) ==
    IF button # "middle" /\ current_mode = "path" /\ button = "left"
       /\ path_tool = "add" /\ accepted /\ Created < MaxObjs
    THEN ClickAddNode(pos, direction)
    ELSE IF button # "middle" /\ current_mode = "path" /\ button = "left"
            /\ path_tool = "delete" /\ item.kind = "QPathNode"
         THEN ClickDeleteNode(item)
         ELSE /\ raised' = ""
              /\ UNCHANGED <<cam, frame, pc, ch, qch, scene, objs, issued>>

\* a mouse press on the 2D canvas
MousePress ==
    \E button \in {"left", "middle", "right"}, pos \in ScenePoints,
       direction \in Directions, accepted \in BOOLEAN, item \in scene \cup {PyNone} :
        /\ handle_mouse_press(button, pos, direction, accepted, item)
        /\ UNCHANGED <<cam, frame, pc, idv, ret, lastOp, station_manager, map_size, map_size_spin,
                       gl_map_size, current_mode, path_tool>>

\* MapEditor.add_path_node_by_position
AddPathNodeByPosition ==
    \E accepted \in BOOLEAN, pos \in Points, direction \in Directions,
       name \in NodeNames :
        /\ IF accepted /\ Created < MaxObjs
           THEN LET node == PathNode(objs.node + 1, pos[1], pos[2], direction, NoId, name)
                    r1 == add_path_node(ch, node)
                    r2 == add_qpath_node(qch, r1.ret.val)
                IN /\ ch' = r1.self
                   /\ qch' = r2.self
                   /\ scene' = IF r2.exc = "" THEN scene \cup {r2.ret.val} ELSE scene
                   /\ raised' = r2.exc
                   /\ objs' = [objs EXCEPT !.node = @ + 1]
                   /\ issued' = Issue(r1.self)
           ELSE /\ raised' = ""
                /\ UNCHANGED <<cam, frame, pc, ch, qch, scene, objs, issued>>
        /\ UNCHANGED <<cam, frame, pc, idv, ret, lastOp, station_manager, map_size, map_size_spin,
                       gl_map_size, current_mode, path_tool>>

\* MapEditor.add_station_type
AddStationType ==
    \E accepted \in BOOLEAN, name \in TypeNames, port \in Ports :
        /\ station_manager' =
               IF accepted
               THEN add_type(station_manager,
                             StationType(name, "#000000", "", port[1], port[2], port[3])).self
               ELSE station_manager
        /\ raised' = ""
        /\ UNCHANGED <<cam, frame, pc, idv, ch, qch, objs, issued, ret, lastOp, scene, map_size,
                       map_size_spin, gl_map_size, current_mode, path_tool>>

\* MapEditor.add_station_at_position. selected is the item selected in the type
\* list (PyNone: none); ok and name are what QInputDialog.getText returns.
AddStationAtPosition ==
    \E selected \in {station_manager.types[n] :
                         n \in SelectableTypes \cap DOMAIN station_manager.types}
                     \cup {PyNone},
       ok \in BOOLEAN,
       name \in StationNames, pos \in Points, direction \in Directions :
        /\ IF selected # PyNone /\ ok /\ Truthy(name) /\ Created < MaxObjs
           THEN LET station == [Station(objs.station + 1, pos[1], pos[2], selected,
                                        name, NoId) EXCEPT !.direction = direction]
                    r1 == add_station(ch, station)
                    r2 == add_qstation(qch, r1.ret.val)
                IN /\ ch' = r1.self
                   /\ qch' = r2.self
                   /\ scene' = IF r2.exc = "" THEN scene \cup {r2.ret.val} ELSE scene
                   /\ raised' = r2.exc
                   /\ objs' = [objs EXCEPT !.station = @ + 1]
                   /\ issued' = Issue(r1.self)
           ELSE /\ raised' = ""
                /\ UNCHANGED <<cam, frame, pc, ch, qch, scene, objs, issued>>
        /\ UNCHANGED <<cam, frame, pc, idv, ret, lastOp, station_manager, map_size, map_size_spin,
                       gl_map_size, current_mode, path_tool>>

\* AGVEditor.add_agv_at_node. selected is scene.selectedItems()[0] (PyNone:
\* nothing selected). Line 132 calls agv.set_status, which AGV does not define:
\* the handler raises AttributeError before class_holder.add_agv is reached.
AddAgvAtNode ==
    \E selected \in scene \cup {PyNone}, accepted \in BOOLEAN :
        /\ raised' = IF selected.kind = "QPathNode" /\ accepted
                     THEN "AttributeError" ELSE ""
        /\ UNCHANGED <<cam, frame, pc, idv, ch, qch, objs, issued, ret, lastOp, ui>>

\* MapEditor.show_stations_table: one row, with its Delete button, per QStation
\* of qclass_holder; building a row reads qstation.name (line 816), which a
\* QStation lacks. MapEditor.delete_station runs only from such a button.
ShowStationsTable ==
    /\ raised' = IF qch.qstations # EmptyDict THEN "AttributeError" ELSE ""
    /\ UNCHANGED <<cam, frame, pc, idv, ch, qch, objs, issued, ret, lastOp, ui>>

\* RealtimeView.update_map_size(new_size), the slot of map_size_changed
\* (main_window.py:56). It calls gl_widget.update_map_size, which GLWidget does
\* not have: the def at realtime_view.py:715 is nested in mouseReleaseEvent. The
\* slot raises AttributeError, which PySide reports without unwinding the
\* emitter, and GLWidget.map_size keeps its value.
realtime_update_map_size(gl, new_size) == [gl_map_size |-> gl, exc |-> "AttributeError"]

\* MapEditor.update_map_size(new_size): the proxies are listed, the scene and the
\* proxy dicts are cleared, and each listed proxy is passed to add_q*, whose
\* constructor raises on a proxy argument; map_size_changed is emitted only
\* when the end is reached.
update_map_size(q, gl, new_size) ==
    LET cleared == [q EXCEPT !.qpath_nodes = EmptyDict, !.qstations = EmptyDict,
                             !.qagvs = EmptyDict]
        exc == IF q.qpath_nodes # EmptyDict
               THEN add_qpath_node(cleared, CHOOSE x \in Values(q.qpath_nodes) : TRUE).exc
               ELSE IF q.qstations # EmptyDict
                    THEN add_qstation(cleared, CHOOSE x \in Values(q.qstations) : TRUE).exc
                    ELSE IF q.qagvs # EmptyDict
                         THEN add_qagv(cleared, CHOOSE x \in Values(q.qagvs) : TRUE).exc
                         ELSE ""
        slot == realtime_update_map_size(gl, new_size)
    IN [qch |-> cleared, scene |-> {}, map_size |-> new_size,
        gl_map_size |-> IF exc = "" THEN slot.gl_map_size ELSE gl,
        exc |-> IF exc = "" THEN slot.exc ELSE exc]

\* the user edits map_size_spin: valueChanged runs update_map_size
UpdateMapSize ==
    \E new_size \in SpinSizes \ {map_size_spin} :
        LET u == update_map_size(qch, gl_map_size, new_size)
        IN /\ map_size_spin' = new_size
           /\ map_size' = u.map_size
           /\ qch' = u.qch
           /\ scene' = u.scene
           /\ gl_map_size' = u.gl_map_size
           /\ raised' = u.exc
           /\ UNCHANGED <<cam, frame, pc, idv, ch, objs, issued, ret, lastOp, station_manager,
                          current_mode, path_tool>>

\* MapLoader.clear_existing_data: the scene, the five dicts of ClassHolder, the
\* three of QClassHolder and the three id managers. Neither catalog is touched:
\* map_editor.station_manager (sm) and class_holder.station_types keep what
\* they hold.
clear_existing_data(c, q, sm) ==
    [ch |-> [c EXCEPT !.stations = EmptyDict, !.stations_by_name = EmptyDict,
                      !.agvs = EmptyDict, !.agvs_by_name = EmptyDict,
                      !.path_nodes = EmptyDict,
                      !.station_id_manager = reset(@).self,
                      !.agv_id_manager = reset(@).self,
                      !.path_node_id_manager = reset(@).self],
     qch |-> [q EXCEPT !.qstations = EmptyDict, !.qagvs = EmptyDict,
                       !.qpath_nodes = EmptyDict],
     scene |-> {},
     station_manager |-> sm]

\* a map document: the elements load_map reads from the XML tree of a map file.
\* types is a set of [name, color, description], the others are sequences in
\* document order.
Doc(size, types, nodes, stations, agvs) ==
    [map_size |-> size, types |-> types, nodes |-> nodes,
     stations |-> stations, agvs |-> agvs]

\* documents offered to MapLoader.load_map: an empty map; a map smaller than
\* map_size_spin allows (3 m), with a
\* station type; maps with one node, one station of a type the catalog has,
\* one station of a type it lacks, one AGV
Docs ==
    {Doc(10, {}, <<>>, <<>>, <<>>),
     Doc(3, {[name |-> "Dock", color |-> "#000000", description |-> "d"]},
         <<>>, <<>>, <<>>),
     Doc(10, {}, <<[id |-> 7, x |-> 20, y |-> 30, direction |-> 90]>>, <<>>, <<>>),
     Doc(10, {}, <<>>, <<[id |-> 4, name |-> "a", x |-> 20, y |-> 30,
                         type |-> "Loading", direction |-> 90]>>, <<>>),
     Doc(10, {}, <<>>, <<[id |-> 4, name |-> "a", x |-> 20, y |-> 30,
                         type |-> "Gone", direction |-> 90]>>, <<>>),
     Doc(10, {}, <<>>, <<>>, <<[id |-> 2, name |-> "v", x |-> 0, y |-> 0,
                                direction |-> 0, status |-> "idle"]>>)}

\* MapExporter.save_map(file_path) on ClassHolder c, catalog sm and map size
\* size. The tree is built first and the file is written last (lines 82-83):
\*   - the station loop reads station.size.width (line 43) where Station.size
\*     is a list: with any station stored, save_map raises and writes nothing;
\*   - the AGV loop reads agv.latest_node (line 73), which AGV lacks;
\*   - nodes are written in dict order, which is the order they were added in
\*     (ids ascend in that order); str() of an int or a float is read back to
\*     the same number by int() and float().
save_map(c, sm, size) ==
    LET ids == DOMAIN c.path_nodes
        Rank(i) == Cardinality({j \in ids : j < i}) + 1
        nodes == [k \in 1..Cardinality(ids) |->
                     LET n == c.path_nodes[CHOOSE i \in ids : Rank(i) = k]
                     IN [id |-> n.id, x |-> n.position[1], y |-> n.position[2],
                         direction |-> n.direction]]
        types == {[name |-> sm.types[t].name, color |-> sm.types[t].color,
                   description |-> sm.types[t].description] : t \in DOMAIN sm.types}
    IN IF c.stations # EmptyDict \/ c.agvs # EmptyDict
       THEN [doc |-> PyNone, exc |-> "AttributeError"]
       ELSE [doc |-> Doc(size, types, nodes, <<>>, <<>>), exc |-> ""]

\* the station_type loop of load_map: add_type of StationType(name, color,
\* description) for each station_type element of the document; the text of an
\* empty element is read back as None
LoadTypes(sm, types) ==
    LET Read(t) == DefaultPortType(t.name, t.color,
                                   IF t.description = "" THEN PyNone
                                   ELSE t.description)
        names == {t.name : t \in types}
    IN [types |-> [n \in (DOMAIN sm.types) \cup names |->
                      IF n \in DOMAIN sm.types
                      THEN sm.types[n]
                      ELSE add_type(sm, Read(CHOOSE t \in types : t.name = n)).self.types[n]]]

\* MapLoader.load_map(file_path) on the document doc, as MapEditor.load_map
\* runs it: inside try/except Exception, which reports the exception in a
\* message box (raised records it all the same). In load_map:
\*   - map_size_spin.setValue emits valueChanged, which runs update_map_size,
\*     when the bounded value differs from the spin box's;
\*   - the node loop builds PathNode(x, y, node_id): node_id lands in direction
\*     and the id stays None, so add_path_node numbers the node itself; the
\*     next line calls qclass_holder.add_path_node, which QClassHolder lacks;
\*   - the station loop skips a station of unknown type and otherwise assigns
\*     station.size.mesh_path, an attribute of a list;
\*   - the AGV loop calls qclass_holder.add_agv, which QClassHolder lacks.
load_map(doc) ==
    LET c0 == clear_existing_data(ch, qch, station_manager)
        v == Clamp(doc.map_size)
        u == update_map_size(c0.qch, gl_map_size, v)
        sm == LoadTypes(c0.station_manager, doc.types)
        n == doc.nodes[1]
        node == PathNode(objs.node + 1, n.x, n.y, n.id, NoId, "")
        known == \E i \in DOMAIN doc.stations :
                     get_type(sm, doc.stations[i].type) # PyNone
    IN /\ doc.nodes # <<>> => Created < MaxObjs
       /\ map_size_spin' = v
       /\ map_size' = IF v # map_size_spin THEN u.map_size ELSE doc.map_size
       /\ gl_map_size' = IF v # map_size_spin THEN u.gl_map_size ELSE gl_map_size
       /\ qch' = c0.qch
       /\ scene' = c0.scene
       /\ station_manager' = sm
       /\ IF doc.nodes # <<>>
          THEN /\ ch' = add_path_node(c0.ch, node).self
               /\ objs' = [objs EXCEPT !.node = @ + 1]
               /\ issued' = Issue(ch')
               /\ raised' = "AttributeError"
          ELSE /\ ch' = c0.ch
               /\ UNCHANGED <<objs, issued>>
               /\ raised' = IF known \/ doc.agvs # <<>>
                            THEN "AttributeError"
                            ELSE IF v # map_size_spin THEN u.exc ELSE ""
       /\ UNCHANGED <<cam, frame, pc, idv, ret, current_mode, path_tool>>

\* MapEditor.load_map with a file chosen that this session did not write
LoadMap == \E doc \in Docs : load_map(doc) /\ UNCHANGED lastOp

---------------------------------------------------------------------------
(* The 3D view of the Real-time View tab: its renders. The widget gets its   *)
(* first resizeGL and paintGL when it is shown, before any input event        *)
(* reaches it.                                                                *)

\* what the GLWidget's handlers leave alone
editor == <<idv, ch, objs, issued, ret, lastOp, ui, pc>>

\* the widget is shown: initializeGL, resizeGL(width, height), paintGL
ShowGL ==
    /\ projection_matrix = identity_projection
    /\ LET shown == [Camera EXCEPT !.projection_matrix =
                                       _perspective_matrix(gl_size[1], gl_size[2])]
           r == paintGL(qch, shown)
       IN /\ SetCamera([shown EXCEPT !.view_matrix = r.view_matrix])
          /\ qch' = r.qch
          /\ drawn' = r.drawn
          /\ raised' = r.exc
    /\ pending' = 0
    /\ UNCHANGED editor

\* a render: the 50 ms timer of RealtimeView, or an update() of a handler
PaintGL ==
    /\ projection_matrix # identity_projection
    /\ LET r == paintGL(qch, Camera)
       IN /\ view_matrix' = r.view_matrix
          /\ qch' = r.qch
          /\ drawn' = r.drawn
          /\ raised' = r.exc
    /\ pending' = 0
    /\ UNCHANGED <<editor, camera_rotation, camera_distance, camera_position,
                   projection_matrix, last_pos, pan_start_pos, gl_size>>

---------------------------------------------------------------------------
(* Spec: the editor's handlers and the renders of the 3D view *)

Next ==
    \/ ShowGL
    \/ PaintGL
    \/ SetMode
    \/ SetPathTool
    \/ MousePress
    \/ AddPathNodeByPosition
    \/ AddStationType
    \/ AddStationAtPosition
    \/ AddAgvAtNode
    \/ ShowStationsTable
    \/ UpdateMapSize
    \/ LoadMap

Spec == Init /\ [][Next]_vars

---------------------------------------------------------------------------
(* FileSpec: the editor with Save and Load of the toolbar. The map file is   *)
(* kept in lastOp: the document the last successful save wrote, with the     *)
(* store and the catalog it was written from; op tells whether the document  *)
(* has since been loaded.                                                    *)

\* MapEditor.save_map: a file is chosen or not; MapExporter.save_map runs in
\* try/except Exception, and writes the file only when nothing was raised
SaveMap ==
    \E chosen \in BOOLEAN :
        LET r == save_map(ch, station_manager, map_size)
        IN /\ raised' = IF chosen THEN r.exc ELSE ""
           /\ lastOp' = IF chosen /\ r.exc = ""
                        THEN [op |-> "save_map", doc |-> r.doc, ch |-> ch,
                              station_manager |-> station_manager]
                        ELSE lastOp
           /\ UNCHANGED <<cam, frame, pc, idv, ch, qch, objs, issued, ret, ui>>

\* MapEditor.load_map with the file of the last save chosen
LoadSavedMap ==
    /\ lastOp.op \in {"save_map", "load_map"}
    /\ load_map(lastOp.doc)
    /\ lastOp' = [lastOp EXCEPT !.op = "load_map"]

FileNext ==
    \/ SetMode
    \/ SetPathTool
    \/ MousePress
    \/ AddPathNodeByPosition
    \/ AddStationType
    \/ AddStationAtPosition
    \/ SaveMap
    \/ LoadSavedMap

FileSpec == Init /\ [][FileNext]_vars

\* C21: a load of the document a save wrote gives a ClassHolder with the same
\* stations, path nodes and AGVs as the one saved: the same ids, and per id the
\* same name, position, heading, size, type name and status.
RoundTripKeepsEntities ==
    [][(lastOp.op = "save_map" /\ lastOp'.op = "load_map") =>
          LET a == lastOp.ch
              b == ch'
          IN /\ DOMAIN b.path_nodes = DOMAIN a.path_nodes
             /\ \A i \in DOMAIN a.path_nodes :
                    /\ b.path_nodes[i].id = a.path_nodes[i].id
                    /\ b.path_nodes[i].position = a.path_nodes[i].position
                    /\ b.path_nodes[i].direction = a.path_nodes[i].direction
             /\ DOMAIN b.stations = DOMAIN a.stations
             /\ \A i \in DOMAIN a.stations :
                    /\ b.stations[i].id = a.stations[i].id
                    /\ b.stations[i].name = a.stations[i].name
                    /\ b.stations[i].position = a.stations[i].position
                    /\ b.stations[i].direction = a.stations[i].direction
                    /\ b.stations[i].size = a.stations[i].size
                    /\ b.stations[i].station_type.name = a.stations[i].station_type.name
             /\ DOMAIN b.agvs = DOMAIN a.agvs
             /\ \A i \in DOMAIN a.agvs :
                    /\ b.agvs[i].id = a.agvs[i].id
                    /\ b.agvs[i].name = a.agvs[i].name
                    /\ b.agvs[i].position = a.agvs[i].position
                    /\ b.agvs[i].direction = a.agvs[i].direction
                    /\ b.agvs[i].status = a.agvs[i].status]_vars

\* C22: the reset a load starts with leaves no entity behind: the id maps of
\* stations, AGVs and path nodes, both name indexes, the station-type catalog
\* and the three proxy maps are empty, and each entity class's next id is 1.
ResetLeavesNothing ==
    [][(lastOp.op = "save_map" /\ lastOp'.op = "load_map") =>
          LET r == clear_existing_data(ch, qch, station_manager)
          IN /\ r.ch.stations = EmptyDict
             /\ r.ch.agvs = EmptyDict
             /\ r.ch.path_nodes = EmptyDict
             /\ r.ch.stations_by_name = EmptyDict
             /\ r.ch.agvs_by_name = EmptyDict
             /\ r.qch.qstations = EmptyDict
             /\ r.qch.qagvs = EmptyDict
             /\ r.qch.qpath_nodes = EmptyDict
             /\ get_new_id(r.ch.station_id_manager).ret = 1
             /\ get_new_id(r.ch.agv_id_manager).ret = 1
             /\ get_new_id(r.ch.path_node_id_manager).ret = 1
             /\ r.ch.station_types = EmptyDict
             /\ r.station_manager.types = EmptyDict]_vars

\* C23: after a save and a load of the document written, every station type
\* the document names has the default port geometry in the catalog (offset
\* (1.5, 0), direction 0), whatever its port geometry was when it was saved.
ReloadGivesDefaultPorts ==
    [][(lastOp.op = "save_map" /\ lastOp'.op = "load_map") =>
          \A t \in lastOp.doc.types :
              /\ t.name \in DOMAIN station_manager'.types
              /\ station_manager'.types[t.name].port_x = 15
              /\ station_manager'.types[t.name].port_y = 0
              /\ station_manager'.types[t.name].port_direction = 0]_vars

---------------------------------------------------------------------------
(* LoopSpec: the GUI thread's event loop. A handler runs from its event to    *)
(* its return without the loop running, except inside a modal dialog          *)
(* (dialog.exec_, QInputDialog.getText), which runs a nested loop. pc is      *)
(*   "idle"            main loop, the Map Editor tab shown                    *)
(*   "realtime"        main loop, the Real-time View tab shown                *)
(*   "node_dialog"     handle_mouse_press in dialog.exec_() (line 524)        *)
(*   "node_backend"    after add_path_node (527), before add_qpath_node (530) *)
(*   "node_proxy_gone" after delete_qpath_node (545), before delete_path_node *)
(*   "station_dialog"  add_station_at_position in getText (line 595)          *)
(*   "station_backend" after add_station (615), before add_qstation (616)     *)
(* The 50 ms timer of RealtimeView fires in any loop, main or nested, and     *)
(* calls gl_widget.update(); Qt paints the widget only while it is visible,   *)
(* that is, while its tab is the current one. The editor's widgets take       *)
(* input only while theirs is, and a modal dialog blocks the tab bar.         *)

\* the states in which one of the two stores has been written and the other
\* not yet
HalfUpdated == {"node_backend", "node_proxy_gone", "station_backend"}

\* a timer that could run paintGL at any statement, like a thread
Paints_anywhere(p) == TRUE

\* the timer's update() leads to paintGL: the event loop runs and the GLWidget
\* is visible
Paints(p) == p = "realtime"

\* a click on the tab bar
LoopSwitchTab ==
    /\ pc \in {"idle", "realtime"}
    /\ pc' = IF pc = "idle" THEN "realtime" ELSE "idle"
    /\ raised' = ""
    /\ UNCHANGED <<cam, frame, idv, ch, qch, objs, issued, ret, lastOp, ui>>

LoopShowGL == Paints(pc) /\ ShowGL

LoopPaintGL == Paints(pc) /\ PaintGL

LoopSetMode == pc = "idle" /\ SetMode

LoopSetPathTool == pc = "idle" /\ SetPathTool

\* handle_mouse_press, path mode, left button, tool "add": up to dialog.exec_()
LoopClickAdd ==
    /\ pc = "idle" /\ current_mode = "path" /\ path_tool = "add"
    /\ Created < MaxObjs
    /\ pc' = "node_dialog"
    /\ raised' = ""
    /\ UNCHANGED <<cam, frame, idv, ch, qch, objs, issued, ret, lastOp, ui>>

\* the dialog returns; when accepted, PathNode(...) and add_path_node
LoopNodeDialogDone ==
    \E accepted \in BOOLEAN, pos \in ScenePoints, direction \in Directions :
        /\ pc = "node_dialog"
        /\ IF accepted
           THEN LET new == get_new_id(ch.path_node_id_manager)
                    node == PathNode(objs.node + 1, pos[1] \div 10, -(pos[2] \div 10),
                                     direction, new.ret, "")
                    r1 == add_path_node([ch EXCEPT !.path_node_id_manager = new.self], node)
                IN /\ ch' = r1.self
                   /\ lastOp' = [op |-> "handle_mouse_press", node |-> r1.ret.val]
                   /\ objs' = [objs EXCEPT !.node = @ + 1]
                   /\ issued' = Issue(r1.self)
                   /\ pc' = "node_backend"
           ELSE /\ pc' = "idle"
                /\ UNCHANGED <<ch, lastOp, objs, issued>>
        /\ raised' = ""
        /\ UNCHANGED <<cam, frame, idv, qch, ret, ui>>

\* add_qpath_node, set_direction, scene.addItem, and the handler returns
LoopNodeProxy ==
    /\ pc = "node_backend"
    /\ LET r2 == add_qpath_node(qch, lastOp.node)
       IN /\ qch' = r2.self
          /\ scene' = IF r2.exc = "" THEN scene \cup {r2.ret.val} ELSE scene
          /\ raised' = r2.exc
    /\ pc' = "idle"
    /\ UNCHANGED <<cam, frame, idv, ch, objs, issued, ret, lastOp, station_manager,
                   map_size, map_size_spin, gl_map_size, current_mode, path_tool>>

\* handle_mouse_press, tool "delete", a QPathNode under the cursor:
\* delete_qpath_node
LoopClickDelete ==
    \E item \in scene :
        /\ pc = "idle" /\ current_mode = "path" /\ path_tool = "delete"
        /\ item.kind = "QPathNode"
        /\ qch' = delete_qpath_node(qch, item.node.id).self
        /\ lastOp' = [op |-> "handle_mouse_press", item |-> item]
        /\ pc' = "node_proxy_gone"
        /\ raised' = ""
        /\ UNCHANGED <<cam, frame, idv, ch, objs, issued, ret, ui>>

\* delete_path_node, scene.removeItem, and the handler returns
LoopDeleteBackend ==
    /\ pc = "node_proxy_gone"
    /\ ch' = delete_path_node(ch, lastOp.item.node.id).self
    /\ scene' = scene \ {lastOp.item}
    /\ pc' = "idle"
    /\ raised' = ""
    /\ UNCHANGED <<cam, frame, idv, qch, objs, issued, ret, lastOp, station_manager,
                   map_size, map_size_spin, gl_map_size, current_mode, path_tool>>

\* add_station_at_position with a type selected: up to QInputDialog.getText
LoopAddStation ==
    /\ pc = "idle"
    /\ Created < MaxObjs
    /\ pc' = "station_dialog"
    /\ raised' = ""
    /\ UNCHANGED <<cam, frame, idv, ch, qch, objs, issued, ret, lastOp, ui>>

\* getText returns; with ok and a name, Station(...) and add_station
LoopStationDialogDone ==
    \E ok \in BOOLEAN, name \in StationNames, pos \in Points, direction \in Directions :
        /\ pc = "station_dialog"
        /\ IF ok /\ Truthy(name)
           THEN LET station == [Station(objs.station + 1, pos[1], pos[2],
                                        station_manager.types["Loading"],
                                        name, NoId) EXCEPT !.direction = direction]
                    r1 == add_station(ch, station)
                IN /\ ch' = r1.self
                   /\ lastOp' = [op |-> "add_station_at_position", station |-> r1.ret.val]
                   /\ objs' = [objs EXCEPT !.station = @ + 1]
                   /\ issued' = Issue(r1.self)
                   /\ pc' = "station_backend"
           ELSE /\ pc' = "idle"
                /\ UNCHANGED <<ch, lastOp, objs, issued>>
        /\ raised' = ""
        /\ UNCHANGED <<cam, frame, idv, qch, ret, ui>>

\* add_qstation, which raises in QStation.__init__: the handler ends there
LoopStationProxy ==
    /\ pc = "station_backend"
    /\ LET r2 == add_qstation(qch, lastOp.station)
       IN /\ qch' = r2.self
          /\ scene' = IF r2.exc = "" THEN scene \cup {r2.ret.val} ELSE scene
          /\ raised' = r2.exc
    /\ pc' = "idle"
    /\ UNCHANGED <<cam, frame, idv, ch, objs, issued, ret, lastOp, station_manager,
                   map_size, map_size_spin, gl_map_size, current_mode, path_tool>>

LoopNext ==
    \/ LoopSwitchTab
    \/ LoopShowGL
    \/ LoopPaintGL
    \/ LoopSetMode
    \/ LoopSetPathTool
    \/ LoopClickAdd
    \/ LoopNodeDialogDone
    \/ LoopNodeProxy
    \/ LoopClickDelete
    \/ LoopDeleteBackend
    \/ LoopAddStation
    \/ LoopStationDialogDone
    \/ LoopStationProxy

LoopSpec == Init /\ [][LoopNext]_vars

---------------------------------------------------------------------------
(* The camera of the 3D view. ZoomSpec: wheel events and renders. CamSpec:   *)
(* every input event of the GLWidget, and renders.                            *)

\* a wheel notch over the widget; lastOp keeps the event and the distance it
\* found
GLWheel ==
    \E zoom_in \in BOOLEAN :
        /\ projection_matrix # identity_projection
        /\ SetCamera(wheelEvent(Camera, zoom_in))
        /\ lastOp' = [op |-> "wheelEvent", zoom_in |-> zoom_in,
                      camera_distance |-> camera_distance]
        /\ raised' = ""
        /\ UNCHANGED <<idv, ch, objs, issued, ret, ui, pc, qch, drawn, pending>>

ZoomNext == ShowGL \/ PaintGL \/ GLWheel

ZoomSpec == Init /\ [][ZoomNext]_vars

\* C13: after any sequence of wheel events from distance 15, camera_distance
\* lies within [min_zoom, max_zoom]; the event took the distance it found to
\* distance / 1.1 (zoom in) or distance * 1.1 (zoom out) when that lies within
\* the range, and left it unchanged when it does not.
ZoomStaysInRange ==
    /\ MinZoom <= camera_distance /\ camera_distance <= MaxZoom
    /\ lastOp.op = "wheelEvent" =>
           LET k == ZoomLevel(lastOp.camera_distance)
               new_distance == IF lastOp.zoom_in THEN DistanceAt(k + 1)
                               ELSE DistanceAt(k - 1)
           IN IF MinZoom <= new_distance /\ new_distance <= MaxZoom
              THEN camera_distance = new_distance
              ELSE camera_distance = lastOp.camera_distance

\* C13 witness: 21 notches in have brought the distance to 15 / 1.1^21 (about
\* 2.03), and one more zoom-in notch, to about 1.84, was rejected.
ZoomRejectedWitness ==
    /\ lastOp.op = "wheelEvent" /\ lastOp.zoom_in
    /\ lastOp.camera_distance = DistanceAt(21)
    /\ DistanceAt(22) < MinZoom
    /\ camera_distance = DistanceAt(21)

\* pointer positions of the events, in pixels: the centre of the widget, and 90
\* pixels to the right of it and 180 below
GLPoints == {<<400, 300>>, <<490, 480>>}

\* the mouse button held down, one at a time: last_pos is set while a button is
\* down, pan_start_pos while it is the middle one
Held == IF last_pos = PyNone THEN "none"
        ELSE IF pan_start_pos # PyNone THEN "middle" ELSE "left"

CamWheel ==
    \E zoom_in \in BOOLEAN :
        LET c == wheelEvent(Camera, zoom_in)
        IN /\ projection_matrix # identity_projection
           /\ pending < MaxPending
           /\ Abs(c.camera_distance - InitialDistance) <= MaxZoomDrift
           /\ SetCamera(c)
           /\ pending' = pending + 1
           /\ raised' = ""
           /\ UNCHANGED <<editor, qch, drawn>>

GLMousePress ==
    \E button \in {"left", "middle"}, pos \in GLPoints :
        /\ projection_matrix # identity_projection
        /\ Held = "none"
        /\ pending < MaxPending
        /\ SetCamera(mousePressEvent(Camera, button, pos))
        /\ pending' = pending + 1
        /\ raised' = ""
        /\ UNCHANGED <<editor, qch, drawn>>

\* move events reach the widget while a button is held (no mouse tracking)
GLMouseMove ==
    \E pos \in GLPoints :
        LET c == mouseMoveEvent(Camera, Held, pos)
        IN /\ projection_matrix # identity_projection
           /\ Held # "none"
           /\ pending < MaxPending
           /\ pending' = pending + 1
           /\ Abs(c.camera_rotation[2] - Init_camera_rotation[2]) <= MaxOrbit
           /\ Held = "middle" =>
                  \A i \in 1..3 :
                      Abs(camera_position[i] - Init_camera_position[i]) <= MaxPan
           /\ SetCamera(c)
           /\ raised' = ""
           /\ UNCHANGED <<editor, qch, drawn>>

GLMouseRelease ==
    /\ projection_matrix # identity_projection
    /\ Held # "none"
    /\ pending < MaxPending
    /\ SetCamera(mouseReleaseEvent(Camera, Held))
    /\ pending' = pending + 1
    /\ raised' = ""
    /\ UNCHANGED <<editor, qch, drawn>>

CamNext ==
    \/ ShowGL
    \/ PaintGL
    \/ CamWheel
    \/ GLMousePress
    \/ GLMouseMove
    \/ GLMouseRelease

CamSpec == Init /\ [][CamNext]_vars

\* C14: the tilt stays within [-89, 89] degrees, and while the left button is
\* held a pointer move of (dx, dy) pixels adds dx * rotation_speed to the orbit
\* angle and dy * rotation_speed to the tilt, the tilt then being cut to
\* [-89, 89] (angles in half-degrees: rotation_speed is 0.5 degree per pixel;
\* last_pos is the pointer position, so a step that leaves it in place has
\* dx = dy = 0).
TiltStaysClamped ==
    [][/\ -TiltLimit <= camera_rotation'[1] /\ camera_rotation'[1] <= TiltLimit
       /\ (Held = "left" /\ last_pos' # PyNone) =>
              LET dx == last_pos'[1] - last_pos[1]
                  dy == last_pos'[2] - last_pos[2]
                  tilt == camera_rotation[1] + dy
              IN /\ camera_rotation'[2] = camera_rotation[2] + dx
                 /\ camera_rotation'[1] =
                        IF tilt > TiltLimit THEN TiltLimit
                        ELSE IF tilt < -TiltLimit THEN -TiltLimit ELSE tilt]_vars

\* C14 witness: a left-button drag of 180 pixels down from the initial tilt of
\* 45 degrees, which would give 135 degrees, has left the tilt at 89 degrees.
TiltClampedWitness ==
    /\ Held = "left"
    /\ last_pos = <<490, 480>>
    /\ camera_rotation[1] = TiltLimit
    /\ Init_camera_rotation[1] + 180 > TiltLimit

\* the ground point under the centre of the widget for a camera: the
\* unprojection of the centre pixel with the view matrix of that camera
CentrePoint(rotation, distance, position) ==
    _screen_to_world(projection_matrix, _create_view_matrix(rotation, distance, position),
                     gl_size, Centre(gl_size))

\* C15: zoom and orbit keep the pivot: whenever a step changes the distance, the
\* tilt or the orbit angle, the point under the centre of the widget for the
\* camera before the step and the one for the camera after it (with the
\* handler's compensation of camera_position) agree. The tolerance is a
\* hundredth of a unit, the resolution of the fixed-point arithmetic; the
\* claim's 1e-4 is finer.
PivotPreserved ==
    [][(camera_distance' # camera_distance \/ camera_rotation' # camera_rotation) =>
          LET before == CentrePoint(camera_rotation, camera_distance, camera_position)
              after == CentrePoint(camera_rotation', camera_distance', camera_position')
          IN \A i \in 1..3 : Abs(before[i] - after[i]) <= 10]_vars

\* C16: the point _screen_to_world returns lies on the plane z = 0.
\* pan_start_pos is what it returned for the pixel of the last middle-button
\* press; the tolerance is a hundredth of a unit.
UnprojectionOnGround ==
    pan_start_pos # PyNone => Abs(pan_start_pos[3]) <= 10

\* the z component of the direction of the view ray through a pixel, for the
\* matrices _screen_to_world uses: the eye-space direction (x * aspect * tan,
\* y * tan, -1) * near, turned by the inverse rotations of the view matrix
ray_direction_z(projection, view, size, screen) ==
    LET x == (2 * Scale * screen[1]) \div size[1] - Scale
        y == Scale - (2 * Scale * screen[2]) \div size[2]
        ex == Mul((Mul(x, TanHalfFovy) * projection.aspect[1])
                      \div projection.aspect[2], NearPlane)
        ey == Mul(Mul(y, TanHalfFovy), NearPlane)
        z1 == Mul(np_cos(view.rotation[1]), -NearPlane) - Mul(np_sin(view.rotation[1]), ey)
    IN Mul(np_sin(view.rotation[2]), ex) + Mul(np_cos(view.rotation[2]), z1)

\* the view ray through a pixel is parallel to the ground: the unprojection of
\* the pixel is degenerate
RayParallel(screen) ==
    ray_direction_z(projection_matrix, view_matrix, gl_size, screen) = 0

\* C17: when the unprojection of a pointer position is degenerate, the handler
\* leaves camera_position unchanged: a step made while the middle button is
\* held, with the view ray of the previous or of the new pointer position
\* parallel to the ground, does not change camera_position.
DegenerateLeavesOffset ==
    [][(/\ Held = "middle"
        /\ last_pos' # PyNone
        /\ RayParallel(last_pos) \/ RayParallel(last_pos'))
       => camera_position' = camera_position]_vars

\* the point _screen_to_world gives for a pixel with the widget's matrices
Unprojected(screen) ==
    _screen_to_world(projection_matrix, view_matrix, gl_size, screen)

\* C18: a pan (the pointer moves while the middle button is held) takes the
\* x, y delta between the unprojected new and previous pointer positions off
\* camera_position and changes neither its z component nor the tilt, the orbit
\* angle or the distance; an orbit (the pointer moves while the left button is
\* held) leaves the distance unchanged; a zoom (the distance changes) leaves
\* the tilt and the orbit angle unchanged.
GesturesChangeOnlyTheirOwn ==
    [][/\ (Held = "middle" /\ last_pos' # PyNone /\ last_pos' # last_pos) =>
              /\ camera_position' =
                     <<camera_position[1] - (Unprojected(last_pos')[1] - Unprojected(last_pos)[1]),
                       camera_position[2] - (Unprojected(last_pos')[2] - Unprojected(last_pos)[2]),
                       camera_position[3]>>
              /\ camera_rotation' = camera_rotation
              /\ camera_distance' = camera_distance
       /\ (Held = "left" /\ last_pos' # PyNone /\ last_pos' # last_pos) =>
              camera_distance' = camera_distance
       /\ camera_distance' # camera_distance => camera_rotation' = camera_rotation]_vars

\* C18 witness: a pan from the centre pixel to (490, 480) has moved the x and y
\* components of camera_position away from their initial values; the z
\* component, the rotation and the distance are the initial ones.
PanMovedOffsetWitness ==
    /\ Held = "middle"
    /\ last_pos = <<490, 480>>
    /\ camera_position[1] # Init_camera_position[1]
    /\ camera_position[2] # Init_camera_position[2]
    /\ camera_position[3] = Init_camera_position[3]
    /\ camera_rotation = Init_camera_rotation
    /\ camera_distance = InitialDistance

---------------------------------------------------------------------------
(* ClickSpec: the 2D canvas under mouse presses, with the mode buttons and  *)
(* the path tool buttons. lastOp keeps the last press: its button, the      *)
(* dialog's answer, the item under the cursor, and the mode, the tool and    *)
(* the number of entities built when it arrived.                             *)

\* a mouse press on the 2D canvas, remembered
CanvasClick ==
    \E button \in {"left", "middle", "right"}, pos \in ScenePoints,
       direction \in Directions, accepted \in BOOLEAN, item \in scene \cup {PyNone} :
        /\ (button = "left" /\ current_mode = "path" /\ path_tool = "add" /\ accepted)
               => Created < MaxObjs
        /\ handle_mouse_press(button, pos, direction, accepted, item)
        /\ lastOp' = [op |-> "handle_mouse_press", button |-> button,
                      accepted |-> accepted, item |-> item, mode |-> current_mode,
                      tool |-> path_tool, created |-> Created]
        /\ UNCHANGED <<cam, frame, pc, idv, ret, station_manager, map_size, map_size_spin,
                       gl_map_size, current_mode, path_tool>>

ClickSpec == Init /\ [][SetMode \/ SetPathTool \/ CanvasClick]_vars

\* the press that made this step, when the step is a press
ThisClick == lastOp'

\* the stores hold the same stations and AGVs after the step as before
OnlyNodesTouched ==
    /\ ch'.stations = ch.stations /\ ch'.stations_by_name = ch.stations_by_name
    /\ ch'.agvs = ch.agvs /\ ch'.agvs_by_name = ch.agvs_by_name
    /\ qch'.qstations = qch.qstations /\ qch'.qagvs = qch.qagvs

\* C29: a press on the 2D canvas changes ClassHolder or QClassHolder only in
\* "path" mode with the left button. With tool "add" and the dialog accepted
\* it adds exactly one path node, under an id no stored node had, and that
\* node's proxy, to qpath_nodes and to the scene; with tool "delete" on a
\* QPathNode it removes exactly that node and its proxy; a press in "station"
\* or "agv" mode, and every middle-button press, leaves both stores as they
\* were.
ClickMutatesOnlyInPathMode ==
    [][LET e == ThisClick
           press == lastOp' # lastOp /\ e.op = "handle_mouse_press"
           path_left == e.button = "left" /\ e.mode = "path"
       IN /\ (ch' # ch \/ qch' # qch) => press /\ path_left
          /\ (press /\ (e.button = "middle" \/ e.mode \in {"station", "agv"}))
                 => ch' = ch /\ qch' = qch /\ scene' = scene
          /\ (press /\ path_left /\ e.tool = "add" /\ e.accepted)
                 => \E id \in (DOMAIN ch'.path_nodes) \ (DOMAIN ch.path_nodes) :
                        /\ DOMAIN ch'.path_nodes = DOMAIN ch.path_nodes \cup {id}
                        /\ \A k \in DOMAIN ch.path_nodes :
                               ch'.path_nodes[k] = ch.path_nodes[k]
                        /\ ch'.path_nodes[id].id = id
                        /\ DOMAIN qch'.qpath_nodes = DOMAIN qch.qpath_nodes \cup {id}
                        /\ id \notin DOMAIN qch.qpath_nodes
                        /\ \A k \in DOMAIN qch.qpath_nodes :
                               qch'.qpath_nodes[k] = qch.qpath_nodes[k]
                        /\ qch'.qpath_nodes[id].node = ch'.path_nodes[id]
                        /\ scene' = scene \cup {qch'.qpath_nodes[id]}
                        /\ OnlyNodesTouched
          /\ (press /\ path_left /\ e.tool = "delete" /\ e.item.kind = "QPathNode")
                 => LET id == e.item.node.id
                    IN /\ id \in DOMAIN ch.path_nodes
                       /\ ch' = [ch EXCEPT !.path_nodes =
                                     [k \in DOMAIN ch.path_nodes \ {id} |-> ch.path_nodes[k]]]
                       /\ qch.qpath_nodes[id] = e.item
                       /\ qch' = [qch EXCEPT !.qpath_nodes =
                                      [k \in DOMAIN qch.qpath_nodes \ {id} |-> qch.qpath_nodes[k]]]
                       /\ scene' = scene \ {e.item}
          /\ (press /\ path_left /\ e.tool = "add" /\ ~e.accepted)
                 => ch' = ch /\ qch' = qch
          /\ (press /\ path_left /\ e.tool = "delete" /\ e.item.kind # "QPathNode")
                 => ch' = ch /\ qch' = qch
      ]_vars

\* a node was added by a press, a second one too, and a press with the delete
\* tool on the first one's proxy has removed it and left the second
ClickDeleteWitness ==
    /\ lastOp.op = "handle_mouse_press" /\ lastOp.button = "left"
    /\ lastOp.mode = "path" /\ lastOp.tool = "delete"
    /\ lastOp.item.kind = "QPathNode"
    /\ lastOp.item.node.id \notin DOMAIN ch.path_nodes
    /\ DOMAIN ch.path_nodes # {}
    /\ DOMAIN qch.qpath_nodes = DOMAIN ch.path_nodes

---------------------------------------------------------------------------
(* PointerSpec: the pointer and wheel events of the GLWidget with several   *)
(* buttons in play. lastOp keeps the pointer as the window system has it:   *)
(* the buttons that are down, the kind of the last event, and armed: whether *)
(* the last press or release was a press. The events are spaced so that the *)
(* widget repaints between two of them (CamSpec has them arrive faster).     *)

\* most buttons held down at once
MaxDown == 2

\* the buttons that are down
Down == IF lastOp.op = "pointer" THEN lastOp.buttons ELSE {}

PointerWheel ==
    \E zoom_in \in BOOLEAN :
        LET c == wheelEvent(Camera, zoom_in)
        IN /\ projection_matrix # identity_projection
           /\ pending = 0
           /\ Abs(c.camera_distance - InitialDistance) <= MaxZoomDrift
           /\ SetCamera(c)
           /\ lastOp' = [op |-> "pointer", event |-> "wheel", buttons |-> Down,
                         armed |-> lastOp.op = "pointer" /\ lastOp.armed]
           /\ pending' = pending + 1
           /\ raised' = ""
           /\ UNCHANGED <<idv, ch, objs, issued, ret, ui, pc, qch, drawn>>

PointerPress ==
    \E button \in {"left", "middle", "right"} \ Down, pos \in GLPoints :
        /\ projection_matrix # identity_projection
        /\ Cardinality(Down) < MaxDown
        /\ pending = 0
        /\ SetCamera(mousePressEvent(Camera, button, pos))
        /\ lastOp' = [op |-> "pointer", event |-> "press",
                      buttons |-> Down \cup {button}, armed |-> TRUE]
        /\ pending' = pending + 1
        /\ raised' = ""
        /\ UNCHANGED <<idv, ch, objs, issued, ret, ui, pc, qch, drawn>>

\* a move event, delivered while some button is down; the handler tests
\* event.buttons() for the left button first, then for the middle one
PointerMove ==
    \E pos \in GLPoints :
        LET buttons == IF "left" \in Down THEN "left"
                       ELSE IF "middle" \in Down THEN "middle" ELSE "right"
            c == mouseMoveEvent(Camera, buttons, pos)
        IN /\ projection_matrix # identity_projection
           /\ Down # {}
           /\ pending = 0
           /\ Abs(c.camera_rotation[2] - Init_camera_rotation[2]) <= MaxOrbit
           /\ \A i \in 1..3 :
                  Abs(camera_position[i] - Init_camera_position[i]) <= MaxPan
           /\ SetCamera(c)
           /\ lastOp' = [lastOp EXCEPT !.event = "move"]
           /\ pending' = pending + 1
           /\ raised' = ""
           /\ UNCHANGED <<idv, ch, objs, issued, ret, ui, pc, qch, drawn>>

PointerRelease ==
    \E button \in Down :
        /\ projection_matrix # identity_projection
        /\ pending = 0
        /\ SetCamera(mouseReleaseEvent(Camera, button))
        /\ lastOp' = [op |-> "pointer", event |-> "release",
                      buttons |-> Down \ {button}, armed |-> FALSE]
        /\ pending' = pending + 1
        /\ raised' = ""
        /\ UNCHANGED <<idv, ch, objs, issued, ret, ui, pc, qch, drawn>>

PointerNext ==
    \/ ShowGL
    \/ PaintGL
    \/ PointerWheel
    \/ PointerPress
    \/ PointerMove
    \/ PointerRelease

PointerSpec == Init /\ [][PointerNext]_vars

\* C28: the tilt, the orbit angle, the distance and the position offset change
\* only in a step that handles an event, and then only a wheel event or a move
\* event that comes after a press with no release since and with the left or
\* the middle button down; so a move after a release, or with only the right
\* button down, changes none of them.
CameraMovesOnlyByGesture ==
    [][<<camera_rotation, camera_distance, camera_position>>'
           # <<camera_rotation, camera_distance, camera_position>>
       => /\ pending' = pending + 1
          /\ \/ lastOp'.event = "wheel"
             \/ /\ lastOp'.event = "move"
                /\ lastOp.armed
                /\ lastOp.buttons \cap {"left", "middle"} # {}]_vars

\* C28 witness: the left button was pressed, then the middle one, the left one
\* was released and a move event arrived with the middle button still down:
\* last_pos is absent and the camera is where it started.
MoveAfterReleaseWitness ==
    /\ lastOp.op = "pointer"
    /\ lastOp.event = "move"
    /\ lastOp.buttons = {"middle"}
    /\ ~lastOp.armed
    /\ last_pos = PyNone
    /\ pan_start_pos # PyNone
    /\ camera_rotation = Init_camera_rotation
    /\ camera_distance = InitialDistance
    /\ camera_position = Init_camera_position

---------------------------------------------------------------------------
(* Claims about the editor (Spec)                                          *)

\* math.cos and math.sin of an angle in degrees, for the multiples of 90
Cos(deg) == CASE deg % 360 = 0 -> 1 [] deg % 360 = 180 -> -1 [] OTHER -> 0
Sin(deg) == CASE deg % 360 = 90 -> 1 [] deg % 360 = 270 -> -1 [] OTHER -> 0

\* QStation._update_port: the position and the direction given to the port node
port_position(station) ==
    LET t == station.station_type
        d == station.direction
    IN <<station.position[1] + t.port_x * Cos(d) - t.port_y * Sin(d),
         station.position[2] + t.port_x * Sin(d) + t.port_y * Cos(d)>>

port_direction(station) ==
    (station.direction + station.station_type.port_direction) % 360

\* C2: within a session no identifier is given to two different entities of
\* one class: two <<id, uid>> pairs ever stored for a class that share the id
\* belong to the same entity.
IdsNeverShared ==
    \A c \in {"station", "agv", "node"} :
        \A p, q \in issued[c] : p[1] = q[1] => p[2] = q[2]

\* C7: every stored station has a proxy whose port node lies at
\* rotate(port offset, heading) + position and has direction
\* (heading + port direction) mod 360.
PortFollowsStation ==
    \A k \in DOMAIN ch.stations :
        /\ k \in DOMAIN qch.qstations
        /\ qch.qstations[k].qport # PyNone
        /\ qch.qstations[k].qport.node.position = port_position(ch.stations[k])
        /\ qch.qstations[k].qport.node.direction = port_direction(ch.stations[k])

EveryEntityHasItsProxy ==
    /\ \A k \in DOMAIN ch.stations :
           k \in DOMAIN qch.qstations /\ qch.qstations[k].station = ch.stations[k]
    /\ \A k \in DOMAIN ch.agvs :
           k \in DOMAIN qch.qagvs /\ qch.qagvs[k].agv = ch.agvs[k]
    /\ \A k \in DOMAIN ch.path_nodes :
           k \in DOMAIN qch.qpath_nodes /\ qch.qpath_nodes[k].node = ch.path_nodes[k]

\* C11: after every completed user action every proxy stored in QClassHolder
\* is the proxy of an entity that ClassHolder stores under the same id: no
\* proxy outlives its entity.
NoProxyOutlivesItsEntity ==
    /\ \A k \in DOMAIN qch.qstations :
           k \in DOMAIN ch.stations /\ qch.qstations[k].station = ch.stations[k]
    /\ \A k \in DOMAIN qch.qagvs :
           k \in DOMAIN ch.agvs /\ qch.qagvs[k].agv = ch.agvs[k]
    /\ \A k \in DOMAIN qch.qpath_nodes :
           k \in DOMAIN ch.path_nodes /\ qch.qpath_nodes[k].node = ch.path_nodes[k]

\* C11 witness: a path node that was stored is gone from ClassHolder (it was
\* deleted by a click or cleared by a load) and so is its proxy, while the
\* proxy of another path node is still stored.
NoProxyOutlivesWitness ==
    /\ \E p \in issued["node"] :
           /\ \A k \in DOMAIN ch.path_nodes : ch.path_nodes[k].uid # p[2]
           /\ \A k \in DOMAIN qch.qpath_nodes : qch.qpath_nodes[k].node.uid # p[2]
    /\ qch.qpath_nodes # EmptyDict

\* C19: a render (the first one, when the widget is shown, or any later
\* paintGL) leaves ClassHolder and QClassHolder, with every entity and proxy
\* in them, as they were.
RenderReadsOnly ==
    [][(ShowGL \/ PaintGL) => (ch' = ch /\ qch' = qch)]_vars

\* C19 witness: a render has drawn the proxy of a stored path node, while
\* ClassHolder also holds a station.
RenderedStoreWitness ==
    /\ view_matrix # identity_view
    /\ drawn # {}
    /\ \E k \in DOMAIN qch.qpath_nodes :
           <<ch.path_nodes[k].position, ch.path_nodes[k].direction>> \in drawn
    /\ ch.stations # EmptyDict


\* C30: after any sequence of spin box edits and loads, the map size the 3D
\* view draws its grid with (GLWidget.map_size) is the editor's map size.
GridUsesEditorMapSize == gl_map_size = map_size

---------------------------------------------------------------------------
(* ViewSpec: the 3D view's functions on entity proxies, applied to stations *)
(* a ClassHolder stores and to proxies at given poses. The application      *)
(* itself never gets as far as calling them with a station: no QStation is  *)
(* ever built.                                                              *)

\* RealtimeView.update_station(qstation), with the station_meshes it has; mesh
\* is what trimesh.load would do with the station's mesh file ("loads",
\* "fails"). Line 43 reads qstation.station.size.mesh_path before the try:
\* Station.size is the list [width, length, height] (station.py:72), so the
\* read raises AttributeError and the try block (lines 44-61) is never entered.
update_station(station_meshes, qstation, mesh) ==
    [station_meshes |-> station_meshes, exc |-> "AttributeError"]

\* the model matrix a draw function builds for a proxy of the given kind:
\* translation <<x, y, z>> and the angle (degrees) of the product of its
\* rotations about Z. _draw_station: trans(x, y, 0), rot(-90), rot(direction);
\* _draw_agv: trans(x, y, 0.1), rot(-90), rot(direction); _draw_path_node:
\* trans(x, y, 0.1), rot(direction). Ports are not drawn by any of them.
model_matrix(kind, position, direction) ==
    CASE kind = "station" ->
             [translation |-> <<position[1], position[2], 0>>,
              rotation |-> (-90 + direction) % 360]
      [] kind = "agv" ->
             [translation |-> <<position[1], position[2], 1>>,
              rotation |-> (-90 + direction) % 360]
      [] kind = "path_node" ->
             [translation |-> <<position[1], position[2], 1>>,
              rotation |-> direction % 360]

\* station_added / station_modified delivered to RealtimeView.update_station
\* with a proxy of a stored station
ViewUpdateStation ==
    \E id \in DOMAIN ch.stations, mesh \in {"loads", "fails"} :
        LET qstation == [kind |-> "QStation", station |-> ch.stations[id]]
            r == update_station(EmptyDict, qstation, mesh)
        IN /\ raised' = r.exc
           /\ lastOp' = [op |-> "update_station", station |-> ch.stations[id],
                         mesh |-> mesh, station_meshes |-> r.station_meshes]
           /\ UNCHANGED <<cam, frame, pc, idv, ch, qch, objs, issued, ret, ui>>

\* a draw function called on a proxy of the given kind, position and heading
ViewDraw ==
    \E kind \in {"station", "agv", "path_node"}, position \in AgvPositions,
       direction \in AgvDirections :
        /\ lastOp' = [op |-> "draw", kind |-> kind, position |-> position,
                      direction |-> direction,
                      model |-> model_matrix(kind, position, direction)]
        /\ raised' = ""
        /\ UNCHANGED <<cam, frame, pc, idv, ch, qch, objs, issued, ret, ui>>

ViewNext ==
    \/ StoreAddStation
    \/ StoreDeleteStation
    \/ ViewUpdateStation
    \/ ViewDraw

ViewSpec == Init /\ [][ViewNext]_vars

\* C24: a mesh load that fails in update_station is not fatal: no exception
\* leaves update_station and station_meshes has no entry for the station.
MeshFailureNotFatal ==
    (lastOp.op = "update_station" /\ lastOp.mesh = "fails") =>
        /\ raised = ""
        /\ lastOp.station.name \notin DOMAIN lastOp.station_meshes

\* C25: every drawn kind is placed by translate(position) then
\* rotate-about-Z(heading) and nothing else: the translation is the position
\* on the ground and the local +X axis points along (cos h, sin h).
OnePlacementConvention ==
    lastOp.op = "draw" =>
        /\ lastOp.model.translation = <<lastOp.position[1], lastOp.position[2], 0>>
        /\ <<Cos(lastOp.model.rotation), Sin(lastOp.model.rotation)>>
               = <<Cos(lastOp.direction), Sin(lastOp.direction)>>

---------------------------------------------------------------------------
(* TypeSpec: one StationTypeManager, starting with its four default types, *)
(* driven through add_type and remove_type. lastOp keeps the call and the   *)
(* catalog it was made on, ret what it returned.                            *)

\* add_type of a StationType built as NewStationTypeDialog.get_station_type
\* builds it, under a name that is a default type's or a new one
TypeAddType ==
    \E name \in {"Loading", "Dock"}, color \in {"#000000", "#4CAF50"},
       port \in {<<15, 0, 0>>, <<0, 10, 90>>} :
        LET t == StationType(name, color, "", port[1], port[2], port[3])
            r == add_type(station_manager, t)
        IN /\ station_manager' = r.self
           /\ ret' = r.ret
           /\ raised' = ""
           /\ lastOp' = [op |-> "add_type", type |-> t, before |-> station_manager]
           /\ UNCHANGED <<cam, frame, pc, idv, ch, qch, objs, issued, scene, map_size,
                          map_size_spin, gl_map_size, current_mode, path_tool>>

TypeRemoveType ==
    \E name \in {"Loading", "Storage", "Dock"} :
        LET r == remove_type(station_manager, name)
        IN /\ station_manager' = r.self
           /\ ret' = r.ret
           /\ raised' = ""
           /\ lastOp' = [op |-> "remove_type", name |-> name, before |-> station_manager]
           /\ UNCHANGED <<cam, frame, pc, idv, ch, qch, objs, issued, scene, map_size,
                          map_size_spin, gl_map_size, current_mode, path_tool>>

TypeSpec == Init /\ [][TypeAddType \/ TypeRemoveType]_vars

\* C27: type names are unique keys of the catalog. add_type under a name the
\* catalog has returns False and leaves the whole catalog as it was; under a
\* new name it returns True, get_type of the name returns the added type and
\* the other types stay; remove_type returns True exactly when the name was
\* in the catalog, and the name is not in it afterwards.
TypeNamesAreUniqueKeys ==
    /\ lastOp.op = "add_type" =>
           IF lastOp.type.name \in DOMAIN lastOp.before.types
           THEN /\ ret = PyBool(FALSE)
                /\ station_manager = lastOp.before
           ELSE /\ ret = PyBool(TRUE)
                /\ get_type(station_manager, lastOp.type.name) = PyObj(lastOp.type)
                /\ \A n \in DOMAIN lastOp.before.types :
                       get_type(station_manager, n) = PyObj(lastOp.before.types[n])
    /\ lastOp.op = "remove_type" =>
           /\ ret = PyBool(lastOp.name \in DOMAIN lastOp.before.types)
           /\ get_type(station_manager, lastOp.name) = PyNone
           /\ \A n \in DOMAIN lastOp.before.types \ {lastOp.name} :
                  get_type(station_manager, n) = PyObj(lastOp.before.types[n])

\* C27 witness: add_type was called with a type named like one the catalog
\* holds but with another colour and port geometry; it returned False.
TypeDuplicateWitness ==
    /\ lastOp.op = "add_type"
    /\ lastOp.type.name \in DOMAIN lastOp.before.types
    /\ lastOp.type.color # lastOp.before.types[lastOp.type.name].color
    /\ lastOp.type.port_direction # lastOp.before.types[lastOp.type.name].port_direction
    /\ ret = PyBool(FALSE)
====
